---- MODULE Spec2Model ----
(***************************************************************************)
(* The CDCL solver of src/cdcl: the CDCLSolver object                      *)
(* (algorithm_backbone.py) driven by the main loop of SATSolver.solve      *)
(* (tester.py).  One variable holds the CDCLSolver object as a record of   *)
(* its fields; the other variables are the locals of solve and the place   *)
(* the driver has reached.                                                 *)
(*                                                                         *)
(* Literals are nonzero integers, a clause is a sequence of literals (a    *)
(* Python list), a formula is a sequence of clauses.  Python dicts are     *)
(* functions whose DOMAIN is the set of keys.                              *)
(*                                                                         *)
(* Floating point activities are held exactly.  A variable activity is a   *)
(* sum of bumps of 1.0, each multiplied by 0.85 = 17/20 once per decay     *)
(* since; solver.activity[v] holds the numerator of that rational over the *)
(* common denominator solver.act_scale = 20^(number of decays), both as    *)
(* arbitrary-precision naturals (sequences of limbs, least significant     *)
(* first).  A clause activity is a sum of terms 0.999^age and is held as   *)
(* the sequence of the ages.  Two activities that differ by less than a    *)
(* float can hold are equal in Python and differ here; in the runs of the  *)
(* formulas below this never decides which variable has the greatest       *)
(* activity.                                                               *)
(*                                                                         *)
(* Spec is solve with its time limit, which may end the loop at any pass.  *)
(* SearchSpec is solve with no time limit and with the state of the        *)
(* heuristics forgotten; it is finite, and termination is checked on it.   *)
(* LubySpec is the restart controller alone, restart after restart.        *)
(* ReductionSpec is solve run far enough for the learned clauses to be     *)
(* reduced, AnyClauseSpec is solve on clauses that may repeat a literal,   *)
(* and ReuseSpec is solve called again and again on one SATSolver.         *)
(*                                                                         *)
(* The DPLL solver of src/TEST_DPLL/dpll_method.py is a function of the    *)
(* clauses and the heuristic; the operators of its methods take and return *)
(* the DPLLSolver object as a record.                                      *)
(*                                                                         *)
(* The other programs of the repository are run in specifications of their *)
(* own, in which solver holds the object of that program: DpllSpec (dpll), *)
(* DpSpec (DavisPutnam.solve of src/TEST_DP), VsidsSpec (VSIDS_CDCL.solve  *)
(* of src/NOT_WORKING, its random.choice a nondeterministic choice),       *)
(* ResolutionSpec (resolution_solver of src/PigeonHole_Problem) and        *)
(* ReaderSpec (the four DIMACS readers, line by line).                     *)
(***************************************************************************)
EXTENDS Integers, Sequences, FiniteSets, TLC

\* ---- bounds of the model ------------------------------------------------
NumVars == 2
MaxClauseLen == 2
MaxClauses == 2
MaxConflicts == 101
MaxRestarts == 126
MaxVsidsConflicts == 3
MaxTokens == 4
MaxReductionConflicts == 203
MaxReuseConflicts == 1

\* ---- constants of the program --------------------------------------------
luby_base == 100
clause_deletion_threshold == 200
max_iterations == 20
minimize_above == 20
min_keep == 50
decay_num == 17
decay_den == 20
clause_decay_num == 999
clause_decay_den == 1000
vsids_decay_num == 19
vsids_decay_den == 20
score_decay_num == 19
score_decay_den == 20
decay_interval == 100

\* ---- literals, clauses, formulas -----------------------------------------
Var(lit) == IF lit < 0 THEN -lit ELSE lit

Lits == {l \in (-NumVars)..NumVars : l # 0}

\* the clauses a formula is drawn from: literals over distinct variables, in
\* increasing order of variable; the empty clause is one of them
ClauseUniverse ==
    {c \in UNION {[1..k -> Lits] : k \in 0..MaxClauseLen} :
        \A i \in 1..(Len(c) - 1) : Var(c[i]) < Var(c[i + 1])}

\* a total order on clauses, used only to list each formula once
RECURSIVE ClauseBefore(_, _)
ClauseBefore(c, d) ==
    IF Len(c) # Len(d) THEN Len(c) < Len(d)
    ELSE IF c = <<>> THEN FALSE
    ELSE IF c[1] # d[1] THEN c[1] < d[1]
    ELSE ClauseBefore(Tail(c), Tail(d))

Formulas ==
    {f \in UNION {[1..m -> ClauseUniverse] : m \in 1..MaxClauses} :
        \A i \in 1..(Len(f) - 1) : ClauseBefore(f[i], f[i + 1])}

\* formulas given one by one: the end-to-end scenarios 1, 2, 4 and 5 of the
\* specification, the four clauses over two variables, formulas over three and
\* four variables whose runs restart, backjump above level 0 and resolve with an
\* antecedent, the pigeonhole formula of three pigeons and two holes, and a
\* conflict with more current-level literals than analyze_conflict resolves
Scenario1 == << <<1, -2>>, <<-1, 2>>, <<2, 3>>, <<-3>> >>
Scenario2 == << <<1, 2>>, <<-1, 2>>, <<-2, 3>> >>
Scenario4 == << <<1>>, <<-1, 2>>, <<-2, 3>>, <<-3, 4>> >>
Scenario5 == << <<1, 2>>, <<-1, 3>>, <<-2, 3>>, <<-3>> >>
AllFourBinary == << <<1, 2>>, <<1, -2>>, <<-1, 2>>, <<-1, -2>> >>
RestartThenSat == << <<2, 3>>, <<-2, -3>>, <<1, 2, -3>> >>
SatNeverFound == << <<1>>, <<2, 3>>, <<-2, -3>>, <<-1, 2, -3>> >>
BackjumpToLevel1 == << <<1, 2, 3>>, <<1, 2, -3>> >>
ResolveAntecedent == << <<-3, -4>>, <<1, 2, 3>>, <<2, -3, 4>> >>
Pigeonhole32 ==
    << <<11, 12>>, <<21, 22>>, <<31, 32>>,
       <<-11, -21>>, <<-12, -22>>, <<-11, -31>>, <<-12, -32>>,
       <<-21, -31>>, <<-22, -32>> >>
LongConflict ==
    [i \in 1..22 |-> <<1, i + 1>>] \o << [k \in 1..22 |-> -(k + 1)] >>

\* the literals of a Python set of at most four small integers in the order of
\* its iteration: by slot of the table of eight, hash(x) & 7 (no two literals
\* of a clause below share a slot)
SetOrder(S) ==
    [r \in 1..Cardinality(S) |->
        CHOOSE x \in S : Cardinality({y \in S : y % 8 < x % 8}) = r - 1]

\* generate_pigeonhole_clauses(pigeons, holes): a clause for every pigeon, then
\* a clause for every two pigeons i < j and every hole k
PairClauses(pigeons, holes) ==
    [n \in 1..(((pigeons * (pigeons - 1)) \div 2) * holes) |->
        LET pairs == {p \in (1..pigeons) \X (1..pigeons) : p[1] < p[2]}
            PairAt(r) == CHOOSE p \in pairs :
                Cardinality({q \in pairs : q[1] < p[1] \/ (q[1] = p[1] /\ q[2] < p[2])}) = r - 1
            p == PairAt(((n - 1) \div holes) + 1)
            k == ((n - 1) % holes) + 1
        IN  SetOrder({-(p[1] * 10 + k), -(p[2] * 10 + k)})]

generate_pigeonhole_clauses(pigeons, holes) ==
    [i \in 1..pigeons |-> SetOrder({i * 10 + j : j \in 1..holes})]
        \o PairClauses(pigeons, holes)

PigeonholeGenerated == generate_pigeonhole_clauses(3, 2)

\* an empty clause after a unit clause and a clause the unit makes unit
EmptyClauseLast == << <<1>>, <<-1, 2>>, <<>> >>

Scenarios ==
    {Scenario1, Scenario2, Scenario4, Scenario5, AllFourBinary, RestartThenSat,
     SatNeverFound, BackjumpToLevel1, ResolveAntecedent, Pigeonhole32, LongConflict,
     EmptyClauseLast, PigeonholeGenerated}

Min(S) == CHOOSE x \in S : \A y \in S : x <= y
Max(S) == CHOOSE x \in S : \A y \in S : y <= x

\* ---- exact naturals -------------------------------------------------------
Base == 1000 * 1000

RECURSIVE BigMulC(_, _, _)
BigMulC(a, m, c) ==
    IF a = <<>> THEN (IF c = 0 THEN <<>> ELSE <<c>>)
    ELSE LET t == a[1] * m + c
         IN  <<t % Base>> \o BigMulC(Tail(a), m, t \div Base)

BigMul(a, m) == BigMulC(a, m, 0)

RECURSIVE BigAddC(_, _, _)
BigAddC(a, b, c) ==
    IF a = <<>> /\ b = <<>> THEN (IF c = 0 THEN <<>> ELSE <<c>>)
    ELSE LET x == IF a = <<>> THEN 0 ELSE a[1]
             y == IF b = <<>> THEN 0 ELSE b[1]
             t == x + y + c
         IN  <<t % Base>> \o BigAddC(IF a = <<>> THEN <<>> ELSE Tail(a),
                                     IF b = <<>> THEN <<>> ELSE Tail(b),
                                     t \div Base)

BigAdd(a, b) == BigAddC(a, b, 0)

BigLess(a, b) ==
    IF Len(a) # Len(b) THEN Len(a) < Len(b)
    ELSE \E i \in 1..Len(a) :
            /\ a[i] < b[i]
            /\ \A j \in (i + 1)..Len(a) : a[j] = b[j]

BigZero == <<>>
BigOne == <<1>>

\* ---- CDCLSolver -----------------------------------------------------------
None == <<>>

\* CDCLSolver.__init__
NewSolver ==
    [assignment |-> <<>>,
     learned_clauses |-> <<>>,
     decision_level |-> 0,
     level |-> <<>>,
     antecedent |-> <<>>,
     trail |-> <<>>,
     max_var |-> 0,
     activity |-> <<>>,
     act_scale |-> BigOne,
     restarts |-> 0,
     conflicts |-> 0,
     luby_sequence |-> <<1>>,
     clause_activity |-> <<>>,
     saved_phases |-> <<>>]

\* dict[key] = value
Put(d, k, v) == [x \in DOMAIN d \cup {k} |-> IF x = k THEN v ELSE d[x]]

\* del dict[key]
Del(d, k) == [x \in DOMAIN d \ {k} |-> d[x]]

initialize_activity(s) ==
    [s EXCEPT !.activity = [v \in DOMAIN s.activity \cup (1..s.max_var) |->
                               IF v \in 1..s.max_var THEN BigZero ELSE s.activity[v]],
              !.saved_phases = [v \in DOMAIN s.saved_phases \cup (1..s.max_var) |->
                               IF v \in 1..s.max_var THEN FALSE ELSE s.saved_phases[v]]]

\* activity[var] += bump_value; bump_value is 1.0, that is act_scale over
\* act_scale.  The rescaling branch needs an activity above 1e100, and an
\* activity is at most the number of bumps made.
bump_variable_activity(s, var) ==
    [s EXCEPT !.activity =
        Put(s.activity, var,
            BigAdd(IF var \in DOMAIN s.activity THEN s.activity[var] ELSE BigZero,
                   s.act_scale))]

RECURSIVE BumpAll(_, _)
BumpAll(s, lits) ==
    IF lits = <<>> THEN s
    ELSE BumpAll(bump_variable_activity(s, Var(lits[1])), Tail(lits))

\* activity[var] *= 0.85 for every var
decay_variable_activity(s) ==
    [s EXCEPT !.activity = [v \in DOMAIN s.activity |-> BigMul(s.activity[v], decay_num)],
              !.act_scale = BigMul(s.act_scale, decay_den)]

bump_clause_activity(s, clause_idx) ==
    [s EXCEPT !.clause_activity =
        Put(s.clause_activity, clause_idx,
            (IF clause_idx \in DOMAIN s.clause_activity
             THEN s.clause_activity[clause_idx] ELSE <<>>) \o <<0>>)]

decay_clause_activity(s) ==
    [s EXCEPT !.clause_activity =
        [i \in DOMAIN s.clause_activity |->
            [k \in 1..Len(s.clause_activity[i]) |-> s.clause_activity[i][k] + 1]]]

\* ---- clause activities ------------------------------------------------------
RECURSIVE BigTimesPow(_, _, _)
BigTimesPow(a, m, e) == IF e = 0 THEN a ELSE BigTimesPow(BigMul(a, m), m, e - 1)

\* the numerator of the sum of 0.999^age over the denominator 1000^n
RECURSIVE AgesNum(_, _)
AgesNum(ages, n) ==
    IF ages = <<>> THEN BigZero
    ELSE BigAdd(BigTimesPow(BigTimesPow(BigOne, clause_decay_num, ages[1]),
                            clause_decay_den, n - ages[1]),
                AgesNum(Tail(ages), n))

\* x < y as clause activities; two single terms compare by age
ClauseActLess(x, y) ==
    IF x = y THEN FALSE
    ELSE IF Len(x) = 1 /\ Len(y) = 1 THEN x[1] > y[1]
    ELSE LET n == Max({0} \cup {x[k] : k \in 1..Len(x)} \cup {y[k] : k \in 1..Len(y)})
         IN  BigLess(AgesNum(x, n), AgesNum(y, n))

\* self.clause_activity.get(i, 0.0)
ClauseAct(s, i) == IF i \in DOMAIN s.clause_activity THEN s.clause_activity[i] ELSE <<>>

\* the position of index i in range(n), not sorted
SortedPos_unsorted(s, i) == i

\* the position (from 0) of index i in
\* sorted(range(n), key=activity, reverse=True): Python's sort is stable, and
\* with reverse=True equal keys keep their original order
SortedPos(s, i) ==
    LET n == Len(s.learned_clauses)
    IN  Cardinality({j \in 0..(n - 1) :
            \/ ClauseActLess(ClauseAct(s, i), ClauseAct(s, j))
            \/ (ClauseAct(s, j) = ClauseAct(s, i) /\ j < i)})

clean_learned_clauses(s) ==
    IF Len(s.learned_clauses) <= clause_deletion_threshold THEN s
    ELSE LET n == Len(s.learned_clauses)
             third == n \div 3
             keep_count == IF third > min_keep THEN third ELSE min_keep
             kept == IF keep_count < n THEN keep_count ELSE n
             to_keep == [r \in 1..kept |->
                            CHOOSE i \in 0..(n - 1) : SortedPos(s, i) = r - 1]
         IN  [s EXCEPT !.learned_clauses =
                           [r \in 1..kept |-> s.learned_clauses[to_keep[r] + 1]],
                       !.clause_activity =
                           [r \in 0..(kept - 1) |-> ClauseAct(s, to_keep[r + 1])]]

\* ---- restarts ---------------------------------------------------------------
\* the lowest k = 1, 2, 4, ... with size & k # 0
RECURSIVE LowBit(_, _)
LowBit(size, k) == IF (size \div k) % 2 = 1 THEN k ELSE LowBit(size, 2 * k)

\* size & (size + 1) == 0: size + 1 is a power of two
RECURSIVE IsPow2(_)
IsPow2(n) == IF n = 1 THEN TRUE ELSE IF n % 2 = 1 THEN FALSE ELSE IsPow2(n \div 2)

next_luby(s) ==
    LET size == Len(s.luby_sequence)
    IN  IF IsPow2(size + 1)
        THEN [s EXCEPT !.luby_sequence = Append(@, 1)]
        ELSE [s EXCEPT !.luby_sequence = Append(@, s.luby_sequence[size - LowBit(size, 1) + 1])]

should_restart(s) ==
    s.conflicts >= luby_base * s.luby_sequence[Len(s.luby_sequence)]

\* ---- backtrack ----------------------------------------------------------------
\* the body of the while loop with the antecedent left in place
Unassign_keeps_antecedent(s, var) ==
    [s EXCEPT !.trail = SubSeq(@, 1, Len(@) - 1),
              !.assignment = Del(@, var),
              !.level = Del(@, var)]

\* the body of the while loop: var = self.trail.pop() and the three del
Unassign(s, var) ==
    [s EXCEPT !.trail = SubSeq(@, 1, Len(@) - 1),
              !.assignment = Del(@, var),
              !.antecedent = IF var \in DOMAIN @ THEN Del(@, var) ELSE @,
              !.level = Del(@, var)]

\* the loop with "if" in the place of "while": one entry is popped
PopAbove_once(s, lvl) ==
    IF s.trail # <<>> /\ s.level[s.trail[Len(s.trail)]] > lvl
    THEN Unassign(s, s.trail[Len(s.trail)])
    ELSE s

\* while self.trail and self.level[self.trail[-1]] > level
RECURSIVE PopAbove(_, _)
PopAbove(s, lvl) ==
    IF s.trail # <<>> /\ s.level[s.trail[Len(s.trail)]] > lvl
    THEN PopAbove(Unassign(s, s.trail[Len(s.trail)]), lvl)
    ELSE s

backtrack(s, lvl) ==
    LET saved == [s EXCEPT !.saved_phases =
                     [v \in DOMAIN s.saved_phases \cup DOMAIN s.assignment |->
                         IF v \in DOMAIN s.assignment THEN s.assignment[v]
                         ELSE s.saved_phases[v]]]
    IN  [PopAbove(saved, lvl) EXCEPT !.decision_level = lvl]

\* perform_restart followed by a decay of the variable activities
perform_restart_decays(s) ==
    decay_variable_activity(
        [next_luby([backtrack(s, 0) EXCEPT !.restarts = @ + 1]) EXCEPT !.conflicts = 0])

\* perform_restart without its last line: the conflict counter is kept
perform_restart_keeps_counter(s) ==
    next_luby([backtrack(s, 0) EXCEPT !.restarts = @ + 1])

perform_restart(s) ==
    LET b == backtrack(s, 0)
        l == next_luby([b EXCEPT !.restarts = @ + 1])
    IN  [l EXCEPT !.conflicts = 0]

\* ---- unit propagation ------------------------------------------------------
\* the test of a literal that takes a negative literal for false
LitTrue_positive_only(a, lit) == lit > 0 /\ Var(lit) \in DOMAIN a /\ a[Var(lit)]

LitTrue(a, lit) == Var(lit) \in DOMAIN a /\ a[Var(lit)] = (lit > 0)

IsSatisfied(a, clause) == {i \in 1..Len(clause) : LitTrue(a, clause[i])} # {}

IsUnassigned(a, lit) == Var(lit) \notin DOMAIN a

UnassignedLits(a, clause) == SelectSeq(clause, LAMBDA lit : IsUnassigned(a, lit))

\* the assignment of a unit literal with the opposite value
AssignUnit_negated(s, lit, clause) ==
    [s EXCEPT !.assignment = Put(@, Var(lit), lit < 0),
              !.saved_phases = Put(@, Var(lit), lit < 0),
              !.level = Put(@, Var(lit), s.decision_level),
              !.antecedent = Put(@, Var(lit), clause),
              !.trail = Append(@, Var(lit))]

\* the assignment of a unit literal with the level one above the current one
AssignUnit_next_level(s, lit, clause) ==
    [s EXCEPT !.assignment = Put(@, Var(lit), lit > 0),
              !.saved_phases = Put(@, Var(lit), lit > 0),
              !.level = Put(@, Var(lit), s.decision_level + 1),
              !.antecedent = Put(@, Var(lit), clause),
              !.trail = Append(@, Var(lit))]

\* "If exactly one unassigned literal": the assignment of the literal
AssignUnit(s, lit, clause) ==
    [s EXCEPT !.assignment = Put(@, Var(lit), lit > 0),
              !.saved_phases = Put(@, Var(lit), lit > 0),
              !.level = Put(@, Var(lit), s.decision_level),
              !.antecedent = Put(@, Var(lit), clause),
              !.trail = Append(@, Var(lit))]

\* the state and the return value of unit_propagate(clauses): each sweep stops
\* at the first clause that is neither satisfied nor has two unassigned
\* literals; it is the conflict, or it is unit and the sweep starts again
RECURSIVE unit_propagate(_, _)
unit_propagate(s, clauses) ==
    LET hit == {i \in 1..Len(clauses) :
                   /\ ~IsSatisfied(s.assignment, clauses[i])
                   /\ Len(UnassignedLits(s.assignment, clauses[i])) <= 1}
    IN  IF hit = {} THEN [solver |-> s, conflict |-> None]
        ELSE LET i == Min(hit)
                 clause == clauses[i]
                 unassigned_lits == UnassignedLits(s.assignment, clause)
                 first_learned == Len(clauses) - Len(s.learned_clauses)
             IN  IF unassigned_lits = <<>>
                 THEN LET counted == [s EXCEPT !.conflicts = @ + 1]
                          bumped == BumpAll(counted, clause)
                          cbumped == IF i - 1 >= first_learned
                                     THEN bump_clause_activity(bumped, i - 1 - first_learned)
                                     ELSE bumped
                      IN  [solver |-> decay_clause_activity(decay_variable_activity(cbumped)),
                           conflict |-> clause]
                 ELSE LET lit == unassigned_lits[1]
                      IN  unit_propagate(
                              bump_variable_activity(AssignUnit(s, lit, clause), Var(lit)),
                              clauses)

\* the indices in clauses (from 1) of the clauses unit_propagate(clauses) stops
\* at: those it takes for unit, sweep after sweep, and the conflict if it ends
\* in one
RECURSIVE UsedClauses(_, _)
UsedClauses(s, clauses) ==
    LET hit == {i \in 1..Len(clauses) :
                   /\ ~IsSatisfied(s.assignment, clauses[i])
                   /\ Len(UnassignedLits(s.assignment, clauses[i])) <= 1}
    IN  IF hit = {} THEN {}
        ELSE LET i == Min(hit)
                 unassigned_lits == UnassignedLits(s.assignment, clauses[i])
             IN  IF unassigned_lits = <<>> THEN {i}
                 ELSE {i} \cup UsedClauses(AssignUnit(s, unassigned_lits[1], clauses[i]),
                                           clauses)

\* ---- decisions ------------------------------------------------------------------
\* unassigned_vars without its test: every variable is a candidate
Unassigned_every_variable(s) == 1..s.max_var

Unassigned(s) == {v \in 1..s.max_var : v \notin DOMAIN s.assignment}

Activity(s, v) == IF v \in DOMAIN s.activity THEN s.activity[v] ELSE BigZero

\* max(unassigned_vars) without its key: the first unassigned variable
BestVar_lowest_index(s) == Min(Unassigned(s))

\* max(unassigned_vars, key=activity): the first of the maximal ones
BestVar(s) ==
    CHOOSE v \in Unassigned(s) :
        \A w \in Unassigned(s) :
            /\ ~BigLess(Activity(s, v), Activity(s, w))
            /\ (Activity(s, w) = Activity(s, v) => v <= w)

\* the assignment of a decision with the level of the variable not raised
Assign_at_old_level(s, best_var) ==
    LET saved_phase == IF best_var \in DOMAIN s.saved_phases
                       THEN s.saved_phases[best_var] ELSE TRUE
    IN  [s EXCEPT !.assignment = Put(@, best_var, saved_phase),
                  !.level = Put(@, best_var, s.decision_level),
                  !.trail = Append(@, best_var),
                  !.decision_level = @ + 1]

\* the assignment of a decision with the default of saved_phases.get in the
\* place of the saved phase
Assign_default_phase(s, best_var) ==
    [s EXCEPT !.assignment = Put(@, best_var, TRUE),
              !.level = Put(@, best_var, s.decision_level + 1),
              !.trail = Append(@, best_var),
              !.decision_level = @ + 1]

\* the assignment of best_var with its saved phase at a new decision level
Assign(s, best_var) ==
    LET saved_phase == IF best_var \in DOMAIN s.saved_phases
                       THEN s.saved_phases[best_var] ELSE TRUE
    IN  [s EXCEPT !.assignment = Put(@, best_var, saved_phase),
                  !.level = Put(@, best_var, s.decision_level + 1),
                  !.trail = Append(@, best_var),
                  !.decision_level = @ + 1]

\* the state and the return value of make_decision()
make_decision(s) ==
    IF Unassigned(s) = {} THEN [solver |-> s, decided |-> FALSE]
    ELSE [solver |-> Assign(s, BestVar(s)), decided |-> TRUE]

\* ---- conflict analysis ---------------------------------------------------------
\* self.trail[::-1].index(var): the distance of var from the end of the trail
OnTrail(s, var) == \E i \in 1..Len(s.trail) : s.trail[i] = var

PosFromEnd(s, var) == Len(s.trail) - Max({i \in 1..Len(s.trail) : s.trail[i] = var})

\* the loop "for lit in current_level_literals: ... if pos > recent_pos": the
\* first literal, among those whose variable is on the trail, of greatest pos
HasRecent(s, cur) == \E i \in 1..Len(cur) : OnTrail(s, Var(cur[i]))

RecentVar(s, cur) ==
    LET on == {i \in 1..Len(cur) : OnTrail(s, Var(cur[i]))}
        i == CHOOSE k \in on :
                 \A j \in on :
                     \/ PosFromEnd(s, Var(cur[j])) < PosFromEnd(s, Var(cur[k]))
                     \/ (PosFromEnd(s, Var(cur[j])) = PosFromEnd(s, Var(cur[k])) /\ k <= j)
    IN  cur[i]

\* list.remove(x): the first occurrence goes
Remove(seq, x) ==
    LET i == Min({k \in 1..Len(seq) : seq[k] = x})
    IN  SubSeq(seq, 1, i - 1) \o SubSeq(seq, i + 1, Len(seq))

\* "for ant_lit in antecedent" of one resolution step, on the analysis state
\* a = [solver, learned, seen, cur, iteration]
RECURSIVE ResolveWith(_, _, _)
ResolveWith(a, ant, var) ==
    IF ant = <<>> THEN a
    ELSE LET ant_lit == ant[1]
             ant_var == Var(ant_lit)
         IN  IF ant_var # var /\ ant_var \notin a.seen
             THEN LET b == [a EXCEPT !.seen = @ \cup {ant_var},
                                     !.solver = bump_variable_activity(@, ant_var)]
                      lv == a.solver.level[ant_var]
                  IN  ResolveWith(
                          IF lv = a.solver.decision_level
                          THEN [b EXCEPT !.cur = Append(@, ant_lit)]
                          ELSE IF lv > 0
                          THEN [b EXCEPT !.learned = Append(@, ant_lit)]
                          ELSE b,
                          Tail(ant), var)
             ELSE ResolveWith(a, Tail(ant), var)

\* "Find the most recently assigned literal (from end of trail)" with its
\* fallback: the literal a resolution step takes from current_level_literals
ChosenLiteral(a) ==
    IF HasRecent(a.solver, a.cur) THEN RecentVar(a.solver, a.cur) ELSE a.cur[Len(a.cur)]

\* one pass through the body of the while loop
ResolveStep(a) ==
    LET lit == ChosenLiteral(a)
        var == Var(lit)
        b == [a EXCEPT !.iteration = @ + 1, !.cur = Remove(@, lit)]
    IN  IF var \in DOMAIN a.solver.antecedent
        THEN ResolveWith(b, a.solver.antecedent[var], var)
        ELSE b

\* the condition of the while loop
Resolving(a) == Len(a.cur) > 1 /\ a.iteration < max_iterations

\* the while loop of analyze_conflict
RECURSIVE ResolveLoop(_)
ResolveLoop(a) == IF Resolving(a) THEN ResolveLoop(ResolveStep(a)) ELSE a

\* the loop that finds back_level, with the conflict level itself allowed
RECURSIVE BackLevel_up_to_conflict_level(_, _, _)
BackLevel_up_to_conflict_level(s, lits, p) ==
    IF lits = <<>> THEN p.back_level
    ELSE LET var == Var(lits[1])
             lv == s.level[var]
         IN  BackLevel_up_to_conflict_level(s, Tail(lits),
                 IF var \in DOMAIN s.level /\ lv > p.second_highest /\ lv <= s.decision_level
                 THEN IF lv > p.back_level
                      THEN [back_level |-> lv, second_highest |-> p.back_level]
                      ELSE [back_level |-> p.back_level, second_highest |-> lv]
                 ELSE p)

\* the loop that finds back_level, on p = [back_level, second_highest]
RECURSIVE BackLevel(_, _, _)
BackLevel(s, lits, p) ==
    IF lits = <<>> THEN p.back_level
    ELSE LET var == Var(lits[1])
             lv == s.level[var]
         IN  BackLevel(s, Tail(lits),
                 IF var \in DOMAIN s.level /\ lv > p.second_highest /\ lv < s.decision_level
                 THEN IF lv > p.back_level
                      THEN [back_level |-> lv, second_highest |-> p.back_level]
                      ELSE [back_level |-> p.back_level, second_highest |-> lv]
                 ELSE p)

\* list(set(lits)): each literal once.  The order Python's set iteration gives
\* is not read anywhere in the solver; the list is held in order of variable,
\* the negative literal first.
LitBefore(x, y) == Var(x) < Var(y) \/ (Var(x) = Var(y) /\ x < y)

ListOfSet(lits) ==
    LET S == {lits[i] : i \in 1..Len(lits)}
    IN  [r \in 1..Cardinality(S) |->
            CHOOSE x \in S : Cardinality({y \in S : LitBefore(y, x)}) = r - 1]

\* the filter of final_learned without its third case: the literals of the
\* current level go
KeepsLiteral_no_current_level(s, back_level, lit) ==
    \/ Var(lit) \notin DOMAIN s.level
    \/ s.level[Var(lit)] <= back_level

\* the filter of final_learned
KeepsLiteral(s, back_level, lit) ==
    \/ Var(lit) \notin DOMAIN s.level
    \/ s.level[Var(lit)] <= back_level
    \/ s.level[Var(lit)] = s.decision_level

\* minimize_clause keeps every literal
minimize_clause(clause) == clause

\* the analysis state with learned started from the literals below the
\* decision level only
StartAnalysis_learned_below(s, conflict_clause) ==
    LET assigned == SelectSeq(conflict_clause, LAMBDA lit : Var(lit) \in DOMAIN s.assignment)
        current == SelectSeq(assigned, LAMBDA lit : s.level[Var(lit)] = s.decision_level)
    IN  [solver |-> BumpAll(s, current),
         learned |-> SelectSeq(assigned, LAMBDA lit : s.level[Var(lit)] # s.decision_level),
         seen |-> {Var(assigned[i]) : i \in 1..Len(assigned)},
         cur |-> current,
         iteration |-> 0]

\* the analysis state with learned started empty, not as a copy of the
\* conflict clause
StartAnalysis_learned_empty(s, conflict_clause) ==
    LET assigned == SelectSeq(conflict_clause, LAMBDA lit : Var(lit) \in DOMAIN s.assignment)
        current == SelectSeq(assigned, LAMBDA lit : s.level[Var(lit)] = s.decision_level)
    IN  [solver |-> BumpAll(s, current),
         learned |-> <<>>,
         seen |-> {Var(assigned[i]) : i \in 1..Len(assigned)},
         cur |-> current,
         iteration |-> 0]

\* "Initial processing of conflict clause": the analysis state
\* a = [solver, learned, seen, cur, iteration], cur being current_level_literals
StartAnalysis(s, conflict_clause) ==
    LET assigned == SelectSeq(conflict_clause, LAMBDA lit : Var(lit) \in DOMAIN s.assignment)
        current == SelectSeq(assigned, LAMBDA lit : s.level[Var(lit)] = s.decision_level)
    IN  [solver |-> BumpAll(s, current),
         learned |-> conflict_clause,
         seen |-> {Var(assigned[i]) : i \in 1..Len(assigned)},
         cur |-> current,
         iteration |-> 0]

\* "If we hit the iteration limit": only the recent literal stays in cur
AtLimit(a) ==
    IF a.iteration >= max_iterations /\ Len(a.cur) > 1 /\ HasRecent(a.solver, a.cur)
    THEN [a EXCEPT !.cur = <<RecentVar(a.solver, a.cur)>>]
    ELSE a

\* "Add the remaining current level literal to learned clause"
AddRemaining(a) ==
    IF a.cur # <<>> THEN [a EXCEPT !.learned = Append(@, a.cur[1])] ELSE a

\* the decay after the analysis and the cleaning of the learned clauses
DecayAndClean(s) ==
    LET decayed == decay_variable_activity(s)
    IN  IF Len(s.learned_clauses) >= clause_deletion_threshold
        THEN clean_learned_clauses(decayed) ELSE decayed

\* the filter, list(set(...)), the minimization and the return value
FinalLearned(s, learned, back_level) ==
    LET final_learned ==
            ListOfSet(SelectSeq(learned, LAMBDA lit : KeepsLiteral(s, back_level, lit)))
    IN  [solver |-> s,
         level |-> back_level,
         learned_clause |-> IF Len(final_learned) > minimize_above
                            THEN minimize_clause(final_learned) ELSE final_learned]

\* from the decay to the end, on the analysis state the loops leave
Conclude(a) ==
    FinalLearned(a.solver, a.learned,
                 BackLevel(a.solver, a.learned, [back_level |-> 0, second_highest |-> 0]))

\* the state and the return value (back_level, final_learned) of
\* analyze_conflict(conflict_clause)
analyze_conflict(s, conflict_clause) ==
    LET a == AddRemaining(AtLimit(ResolveLoop(StartAnalysis(s, conflict_clause))))
    IN  Conclude([a EXCEPT !.solver = DecayAndClean(@)])

\* ---- SATSolver.solve ---------------------------------------------------------------
VARIABLES
    clauses,             \* the argument of solve
    solver,              \* self.cdcl_solver
    pc,                  \* where the driver is
    conflict,            \* the local conflict
    level,               \* the local level, from analyze_conflict
    learned_clause,      \* the local learned_clause
    result,              \* the value returned, once pc is a return
    num_conflicts, num_decisions, num_restarts, num_clauses_learned

vars == <<clauses, solver, pc, conflict, level, learned_clause, result,
          num_conflicts, num_decisions, num_restarts, num_clauses_learned>>

Returns == {"return_empty_clause", "return_conflict_level_0", "return_sat",
            "return_no_decision", "return_timeout"}

Returned == pc \in Returns

Init ==
    /\ clauses \in Formulas \cup Scenarios
    /\ solver = NewSolver
    /\ pc = "start"
    /\ conflict = None
    /\ level = 0
    /\ learned_clause = None
    /\ result = FALSE
    /\ num_conflicts = 0
    /\ num_decisions = 0
    /\ num_restarts = 0
    /\ num_clauses_learned = 0

AllVars(cls) == UNION {{Var(cls[i][k]) : k \in 1..Len(cls[i])} : i \in 1..Len(cls)}

\* the termination check with the two defaults of assignment.get exchanged: an
\* unassigned literal counts as true
AllSatisfied_unassigned_true(s, cls) ==
    \A i \in 1..Len(cls) : \E k \in 1..Len(cls[i]) :
        Var(cls[i][k]) \in DOMAIN s.assignment => LitTrue(s.assignment, cls[i][k])

\* the all(any(...)) of the termination check
AllSatisfied(s, cls) == \A i \in 1..Len(cls) : IsSatisfied(s.assignment, cls[i])

\* the empty clause check looking at the first clause only
HasEmptyClause_first_only(cls) == cls # <<>> /\ Len(cls[1]) = 0

\* any(len(clause) == 0 for clause in clauses)
HasEmptyClause(cls) == \E i \in 1..Len(cls) : Len(cls[i]) = 0

\* lines 115-139: max_var, the activities, the empty clause check
Setup ==
    /\ pc = "start"
    /\ LET all_vars == AllVars(clauses)
           max_var == IF all_vars # {} THEN Max(all_vars) ELSE 0
       IN  solver' = initialize_activity([solver EXCEPT !.max_var = max_var])
    /\ IF HasEmptyClause(clauses)
       THEN pc' = "return_empty_clause" /\ result' = FALSE
       ELSE pc' = "loop" /\ UNCHANGED result
    /\ UNCHANGED <<clauses, conflict, level, learned_clause,
                   num_conflicts, num_decisions, num_restarts, num_clauses_learned>>

\* line 142 is false: the time limit has passed; lines 200-202
Timeout ==
    /\ pc = "loop"
    /\ pc' = "return_timeout"
    /\ result' = FALSE
    /\ UNCHANGED <<clauses, solver, conflict, level, learned_clause,
                   num_conflicts, num_decisions, num_restarts, num_clauses_learned>>

\* lines 144-146
Restart ==
    /\ pc = "loop"
    /\ num_conflicts < MaxConflicts
    /\ should_restart(solver)
    /\ solver' = perform_restart(solver)
    /\ num_restarts' = num_restarts + 1
    /\ pc' = "propagate"
    /\ UNCHANGED <<clauses, conflict, level, learned_clause, result,
                   num_conflicts, num_decisions, num_clauses_learned>>

\* lines 149-150
Propagate ==
    /\ \/ pc = "propagate"
       \/ pc = "loop" /\ num_conflicts < MaxConflicts /\ ~should_restart(solver)
    /\ LET r == unit_propagate(solver, clauses \o solver.learned_clauses)
       IN  /\ solver' = r.solver
           /\ conflict' = r.conflict
           /\ pc' = IF r.conflict # None THEN "conflict" ELSE "no_conflict"
    /\ UNCHANGED <<clauses, level, learned_clause, result,
                   num_conflicts, num_decisions, num_restarts, num_clauses_learned>>

\* lines 161-167
ConflictAtLevel0 ==
    /\ pc = "conflict"
    /\ solver.decision_level = 0
    /\ num_conflicts' = num_conflicts + 1
    /\ pc' = "return_conflict_level_0"
    /\ result' = FALSE
    /\ UNCHANGED <<clauses, solver, conflict, level, learned_clause,
                   num_decisions, num_restarts, num_clauses_learned>>

\* lines 161-170
Analyze ==
    /\ pc = "conflict"
    /\ solver.decision_level # 0
    /\ num_conflicts' = num_conflicts + 1
    /\ LET r == analyze_conflict(solver, conflict)
       IN  /\ solver' = r.solver
           /\ level' = r.level
           /\ learned_clause' = r.learned_clause
    /\ pc' = "backtrack"
    /\ UNCHANGED <<clauses, conflict, result, num_decisions, num_restarts,
                   num_clauses_learned>>

\* line 173
Backtrack ==
    /\ pc = "backtrack"
    /\ solver' = backtrack(solver, level)
    /\ pc' = "learn"
    /\ UNCHANGED <<clauses, conflict, level, learned_clause, result,
                   num_conflicts, num_decisions, num_restarts, num_clauses_learned>>

\* lines 174-178
Learn ==
    /\ pc = "learn"
    /\ LET appended == [solver EXCEPT !.learned_clauses = Append(@, learned_clause)]
       IN  solver' = [appended EXCEPT !.clause_activity =
                         Put(@, Len(appended.learned_clauses) - 1, <<0>>)]
    /\ num_clauses_learned' = num_clauses_learned + 1
    /\ pc' = "loop"
    /\ UNCHANGED <<clauses, conflict, level, learned_clause, result,
                   num_conflicts, num_decisions, num_restarts>>

\* lines 181-191
ReturnSat ==
    /\ pc = "no_conflict"
    /\ AllSatisfied(solver, clauses)
    /\ pc' = "return_sat"
    /\ result' = TRUE
    /\ UNCHANGED <<clauses, solver, conflict, level, learned_clause,
                   num_conflicts, num_decisions, num_restarts, num_clauses_learned>>

\* lines 193-198
Decide ==
    /\ pc = "no_conflict"
    /\ ~AllSatisfied(solver, clauses)
    /\ LET r == make_decision(solver)
       IN  /\ solver' = r.solver
           /\ IF r.decided
              THEN pc' = "loop" /\ num_decisions' = num_decisions + 1 /\ UNCHANGED result
              ELSE pc' = "return_no_decision" /\ result' = FALSE /\ UNCHANGED num_decisions
    /\ UNCHANGED <<clauses, conflict, level, learned_clause,
                   num_conflicts, num_restarts, num_clauses_learned>>

Next ==
    \/ Setup
    \/ Timeout
    \/ Restart
    \/ Propagate
    \/ ConflictAtLevel0
    \/ Analyze
    \/ Backtrack
    \/ Learn
    \/ ReturnSat
    \/ Decide

Spec == Init /\ [][Next]_vars

\* ---- solve without a deadline, the heuristics forgotten ------------------------------
\* The activities, the counters conflicts and restarts, luby_sequence, the clause
\* activities, and the order and the repetitions of learned_clauses decide only
\* which variable is decided, when a restart is made, which learned clauses are
\* deleted and in which order they are propagated.  SearchSpec forgets them and
\* allows every such choice, so each run of solve with no time limit is a run of
\* SearchSpec once Forget is applied to its states.
ClauseSet(seq) == {seq[i] : i \in 1..Len(seq)}

Orders(S) ==
    {q \in [1..Cardinality(S) -> S] : \A i, j \in 1..Cardinality(S) : i # j => q[i] # q[j]}

Sorted(S) ==
    CHOOSE q \in Orders(S) : \A i \in 1..(Len(q) - 1) : ClauseBefore(q[i], q[i + 1])

Forget(s) ==
    [s EXCEPT !.activity = [v \in DOMAIN s.activity |-> BigZero],
              !.act_scale = BigOne,
              !.restarts = 0,
              !.conflicts = 0,
              !.luby_sequence = <<1>>,
              !.clause_activity = <<>>,
              !.learned_clauses = Sorted(ClauseSet(s.learned_clauses))]

SearchInit ==
    /\ Init
    /\ clauses \in Formulas \cup {AllFourBinary}

\* lines 144-146, whatever should_restart says
SearchRestart ==
    /\ pc = "loop"
    /\ solver' = Forget(perform_restart(solver))
    /\ pc' = "propagate"
    /\ UNCHANGED <<clauses, conflict, level, learned_clause, result,
                   num_conflicts, num_decisions, num_restarts, num_clauses_learned>>

\* lines 149-150, the learned clauses in any order
SearchPropagate ==
    /\ pc \in {"propagate", "loop"}
    /\ \E order \in Orders(ClauseSet(solver.learned_clauses)) :
          LET r == unit_propagate(solver, clauses \o order)
          IN  /\ solver' = Forget(r.solver)
              /\ conflict' = r.conflict
              /\ pc' = IF r.conflict # None THEN "conflict" ELSE "no_conflict"
    /\ UNCHANGED <<clauses, level, learned_clause, result,
                   num_conflicts, num_decisions, num_restarts, num_clauses_learned>>

\* lines 161-167
SearchConflictAtLevel0 ==
    /\ pc = "conflict"
    /\ solver.decision_level = 0
    /\ pc' = "return_conflict_level_0"
    /\ result' = FALSE
    /\ UNCHANGED <<clauses, solver, conflict, level, learned_clause,
                   num_conflicts, num_decisions, num_restarts, num_clauses_learned>>

\* lines 161-170, clean_learned_clauses keeping any of the learned clauses
SearchAnalyze ==
    /\ pc = "conflict"
    /\ solver.decision_level # 0
    /\ \E kept \in SUBSET ClauseSet(solver.learned_clauses) :
          LET r == analyze_conflict(solver, conflict)
          IN  /\ solver' = Forget([r.solver EXCEPT !.learned_clauses = Sorted(kept)])
              /\ level' = r.level
              /\ learned_clause' = r.learned_clause
    /\ pc' = "backtrack"
    /\ UNCHANGED <<clauses, conflict, result,
                   num_conflicts, num_decisions, num_restarts, num_clauses_learned>>

\* lines 174-178
SearchLearn ==
    /\ pc = "learn"
    /\ solver' = Forget([solver EXCEPT !.learned_clauses = Append(@, learned_clause)])
    /\ pc' = "loop"
    /\ UNCHANGED <<clauses, conflict, level, learned_clause, result,
                   num_conflicts, num_decisions, num_restarts, num_clauses_learned>>

\* lines 193-198, any unassigned variable being the one of greatest activity
SearchDecide ==
    /\ pc = "no_conflict"
    /\ ~AllSatisfied(solver, clauses)
    /\ IF Unassigned(solver) = {}
       THEN pc' = "return_no_decision" /\ result' = FALSE /\ UNCHANGED solver
       ELSE /\ \E best_var \in Unassigned(solver) : solver' = Assign(solver, best_var)
            /\ pc' = "loop"
            /\ UNCHANGED result
    /\ UNCHANGED <<clauses, conflict, level, learned_clause,
                   num_conflicts, num_decisions, num_restarts, num_clauses_learned>>

SearchNext ==
    \/ Setup
    \/ SearchRestart
    \/ SearchPropagate
    \/ SearchConflictAtLevel0
    \/ SearchAnalyze
    \/ Backtrack
    \/ SearchLearn
    \/ ReturnSat
    \/ SearchDecide

\* solve is one sequential loop: while it has not returned it takes its next
\* step.  Every step of SearchNext moves pc and one is possible wherever pc is
\* not a return, so the fairness of SearchNext is that of the moves of pc.
Locations ==
    {"start", "loop", "propagate", "conflict", "no_conflict", "backtrack", "learn"}
        \cup Returns

Advance ==
    /\ ~Returned
    /\ pc' \in Locations \ {pc}

SearchSpec == SearchInit /\ [][SearchNext]_vars /\ WF_pc(Advance)

\* ---- solve run until the learned clauses are reduced ---------------------------
\* the passes of the loop in a run long enough for clean_learned_clauses to
\* delete clauses: the threshold is passed at conflict 202, within
\* MaxReductionConflicts
\* a clause with a literal twice, never unit for unit_propagate, and the four
\* clauses over two more variables
LearnedAntecedentDeleted ==
    << <<1, 1>>, <<2, 3>>, <<2, -3>>, <<-2, 3>>, <<-2, -3>> >>

ReductionInit ==
    /\ clauses \in {AllFourBinary, LearnedAntecedentDeleted, RestartThenSat, Scenario5}
    /\ solver = NewSolver
    /\ pc = "start"
    /\ conflict = None
    /\ level = 0
    /\ learned_clause = None
    /\ result = FALSE
    /\ num_conflicts = 0
    /\ num_decisions = 0
    /\ num_restarts = 0
    /\ num_clauses_learned = 0

\* lines 144-146
ReductionRestart ==
    /\ pc = "loop"
    /\ num_conflicts < MaxReductionConflicts
    /\ should_restart(solver)
    /\ solver' = perform_restart(solver)
    /\ num_restarts' = num_restarts + 1
    /\ pc' = "propagate"
    /\ UNCHANGED <<clauses, conflict, level, learned_clause, result,
                   num_conflicts, num_decisions, num_clauses_learned>>

\* lines 149-150
ReductionPropagate ==
    /\ \/ pc = "propagate"
       \/ pc = "loop" /\ num_conflicts < MaxReductionConflicts /\ ~should_restart(solver)
    /\ LET r == unit_propagate(solver, clauses \o solver.learned_clauses)
       IN  /\ solver' = r.solver
           /\ conflict' = r.conflict
           /\ pc' = IF r.conflict # None THEN "conflict" ELSE "no_conflict"
    /\ UNCHANGED <<clauses, level, learned_clause, result,
                   num_conflicts, num_decisions, num_restarts, num_clauses_learned>>

ReductionNext ==
    \/ Setup
    \/ Timeout
    \/ ReductionRestart
    \/ ReductionPropagate
    \/ ConflictAtLevel0
    \/ Analyze
    \/ Backtrack
    \/ Learn
    \/ ReturnSat
    \/ Decide

ReductionSpec == ReductionInit /\ [][ReductionNext]_vars

\* ---- solve on clauses that repeat a literal ---------------------------------------
\* solve takes any list of lists of integers: a clause may hold a literal twice
RepeatedLiteralFormulas ==
    {<< <<lit, lit>> >> \o f : lit \in Lits, f \in {g \in Formulas : Len(g) = 1}}

AnyClauseInit ==
    /\ clauses \in Formulas \cup Scenarios \cup RepeatedLiteralFormulas
    /\ solver = NewSolver
    /\ pc = "start"
    /\ conflict = None
    /\ level = 0
    /\ learned_clause = None
    /\ result = FALSE
    /\ num_conflicts = 0
    /\ num_decisions = 0
    /\ num_restarts = 0
    /\ num_clauses_learned = 0

AnyClauseSpec == AnyClauseInit /\ [][Next]_vars

\* ---- solve called again on the same SATSolver ---------------------------------------
\* SATSolver.__init__ makes the one CDCLSolver of the object and solve never
\* makes another: a call of solve starts from the solver the call before it
\* left.  A further call is taken here while the solver has met at most
\* MaxReuseConflicts conflicts and has not restarted, on a formula of one
\* clause.
ReuseFormulas == {f \in Formulas : Len(f) = 1}

SolveAgain ==
    /\ Returned
    /\ solver.restarts = 0
    /\ solver.conflicts <= MaxReuseConflicts
    /\ clauses' \in ReuseFormulas
    /\ pc' = "start"
    /\ conflict' = None
    /\ level' = 0
    /\ learned_clause' = None
    /\ result' = FALSE
    /\ num_conflicts' = 0
    /\ num_decisions' = 0
    /\ num_restarts' = 0
    /\ num_clauses_learned' = 0
    /\ UNCHANGED solver

ReuseNext ==
    \/ Setup
    \/ Timeout
    \/ Restart
    \/ Propagate
    \/ ConflictAtLevel0
    \/ Analyze
    \/ Backtrack
    \/ Learn
    \/ ReturnSat
    \/ Decide
    \/ SolveAgain

ReuseSpec == Init /\ [][ReuseNext]_vars

\* ---- the restart controller alone ----------------------------------------------------
\* the calls of perform_restart on a solver, one after the other: the values of
\* luby_sequence do not depend on the search between two restarts
LubyInit ==
    /\ Init
    /\ clauses = AllFourBinary

ControllerRestart ==
    /\ solver.restarts < MaxRestarts
    /\ solver' = perform_restart(solver)
    /\ UNCHANGED <<clauses, pc, conflict, level, learned_clause, result,
                   num_conflicts, num_decisions, num_restarts, num_clauses_learned>>

LubySpec == LubyInit /\ [][ControllerRestart]_vars

\* ---- the resolution harness --------------------------------------------------------
\* what solve_file returns for the result of resolution_solver
solve_file(resolution_result) ==
    IF resolution_result = "SATISFIABLE" THEN "SATISFIABLE" ELSE "UNSATISFIABLE"

\* ---- DPLLSolver -------------------------------------------------------------------------
\* DPLLSolver.__init__; a score of vsids_scores is its entry over vsids_scale
NewDPLLSolver(heuristic) ==
    [assignments |-> <<>>,
     decisions |-> 0,
     propagations |-> 0,
     pure_eliminations |-> 0,
     heuristic |-> heuristic,
     vsids_scores |-> <<>>,
     vsids_scale |-> BigOne]

Heuristics == {"moms", "vsids", "jw"}

\* literal in clause
Contains(clause, literal) == \E k \in 1..Len(clause) : clause[k] = literal

\* [l for l in clause if l != literal]
Without(clause, literal) == SelectSeq(clause, LAMBDA l : l # literal)

\* the head of "for unit in unit_clauses" up to the scores
RecordUnit(d, literal) ==
    [d EXCEPT !.propagations = @ + 1,
              !.assignments = Put(@, Var(literal), literal > 0),
              !.vsids_scores =
                  IF d.heuristic = "vsids"
                  THEN Put(@, Var(literal),
                           BigAdd(IF Var(literal) \in DOMAIN @ THEN @[Var(literal)]
                                  ELSE BigZero,
                                  d.vsids_scale))
                  ELSE @]

\* the clauses that do not hold the literal
Unsatisfied(cls, literal) == SelectSeq(cls, LAMBDA c : ~Contains(c, literal))

\* "for clause in clauses" of unit_propagation: failed when a new clause is empty
Simplify(cls, literal) ==
    LET rest == Unsatisfied(cls, literal)
    IN  [failed |-> \E i \in 1..Len(rest) : Without(rest[i], -literal) = <<>>,
         clauses |-> [i \in 1..Len(rest) |-> Without(rest[i], -literal)]]

\* "for unit in unit_clauses": the unit clauses are those of the list at the
\* start of the pass
RECURSIVE ProcessUnits(_, _, _)
ProcessUnits(d, cls, unit_clauses) ==
    IF unit_clauses = <<>> THEN [failed |-> FALSE, d |-> d, clauses |-> cls]
    ELSE LET literal == unit_clauses[1][1]
             r == Simplify(cls, literal)
         IN  IF r.failed
             THEN [failed |-> TRUE, d |-> RecordUnit(d, literal), clauses |-> <<>>]
             ELSE ProcessUnits(RecordUnit(d, literal), r.clauses, Tail(unit_clauses))

\* DPLLSolver.unit_propagation: failed stands for the return value None
RECURSIVE unit_propagation(_, _)
unit_propagation(d, cls) ==
    LET unit_clauses == SelectSeq(cls, LAMBDA c : Len(c) = 1)
    IN  IF unit_clauses = <<>> THEN [failed |-> FALSE, d |-> d, clauses |-> cls]
        ELSE LET r == ProcessUnits(d, cls, unit_clauses)
             IN  IF r.failed THEN r ELSE unit_propagation(r.d, r.clauses)

RECURSIVE Flatten(_)
Flatten(cls) == IF cls = <<>> THEN <<>> ELSE cls[1] \o Flatten(Tail(cls))

\* the literals whose complement is in no clause
PureLiterals(cls) ==
    LET lits == Flatten(cls)
        present == {lits[i] : i \in 1..Len(lits)}
    IN  {l \in present : -l \notin present}

\* the else branch of the removal loop, over the literals of the removed
\* clauses: a pure literal has its value recorded, once counted for each of
\* its occurrences (no two pure literals have the same variable)
RecordPure(d, lits, pure_literals) ==
    LET recorded == {lits[i] : i \in 1..Len(lits)} \cap pure_literals
    IN  [d EXCEPT !.assignments =
                      [v \in DOMAIN @ \cup {Var(l) : l \in recorded} |->
                          IF v \in recorded THEN TRUE
                          ELSE IF -v \in recorded THEN FALSE
                          ELSE @[v]],
                  !.pure_eliminations =
                      @ + Cardinality({i \in 1..Len(lits) : lits[i] \in pure_literals})]

HasPure(c, pure_literals) == \E k \in 1..Len(c) : c[k] \in pure_literals

\* DPLLSolver.pure_literal_elimination
RECURSIVE pure_literal_elimination(_, _)
pure_literal_elimination(d, cls) ==
    LET pure_literals == PureLiterals(cls)
        new_clauses == SelectSeq(cls, LAMBDA c : ~HasPure(c, pure_literals))
        removed == SelectSeq(cls, LAMBDA c : HasPure(c, pure_literals))
    IN  IF pure_literals = {} \/ Len(new_clauses) = Len(cls)
        THEN [d |-> d, clauses |-> cls]
        ELSE pure_literal_elimination(
                 RecordPure(d, Flatten(removed), pure_literals), new_clauses)

\* DPLLSolver.remove_redundant_clauses: no tautology, and the first of the
\* clauses with the same set of literals
remove_redundant_clauses(cls) ==
    LET FrozenSet(c) == {c[k] : k \in 1..Len(c)}
        kept == {i \in 1..Len(cls) :
                    /\ ~(\E j, k \in 1..Len(cls[i]) : cls[i][j] = -cls[i][k])
                    /\ \A j \in 1..(i - 1) : FrozenSet(cls[j]) # FrozenSet(cls[i])}
    IN  [r \in 1..Cardinality(kept) |->
            cls[CHOOSE i \in kept : Cardinality({j \in kept : j < i}) = r - 1]]

\* the keys of a Counter filled with abs(literal) over the literals lits, in the
\* order of their first insertion
RECURSIVE KeysInOrder(_, _)
KeysInOrder(lits, seen) ==
    IF lits = <<>> THEN <<>>
    ELSE IF Var(lits[1]) \in seen THEN KeysInOrder(Tail(lits), seen)
    ELSE <<Var(lits[1])>> \o KeysInOrder(Tail(lits), seen \cup {Var(lits[1])})

\* max(items, key=...): the first of the keys, in their order, with the
\* greatest value
FirstMax(keys, value) ==
    keys[Min({i \in 1..Len(keys) :
                 \A j \in 1..Len(keys) : value[keys[j]] <= value[keys[i]]})]

\* max(variables, key=...) over exact scores
FirstMaxScore(keys, value) ==
    keys[Min({i \in 1..Len(keys) :
                 \A j \in 1..Len(keys) : ~BigLess(value[keys[i]], value[keys[j]])})]

\* _choose_literal_moms on a non-empty list; raised stands for the ValueError
\* of max() on an empty sequence
choose_literal_moms(cls) ==
    LET min_size == Min({Len(cls[i]) : i \in 1..Len(cls)})
        lits == Flatten(SelectSeq(cls, LAMBDA c : Len(c) = min_size))
        keys == KeysInOrder(lits, {})
        literal_counts ==
            [v \in {keys[i] : i \in 1..Len(keys)} |->
                Cardinality({i \in 1..Len(lits) : Var(lits[i]) = v})]
    IN  IF keys = <<>> THEN [raised |-> TRUE, literal |-> 0]
        ELSE [raised |-> FALSE, literal |-> FirstMax(keys, literal_counts)]

RECURSIVE Pow(_, _)
Pow(b, n) == IF n = 0 THEN 1 ELSE b * Pow(b, n - 1)

\* the weight 2 ** -len(clause) of every occurrence of the variable v, in units
\* of 2 ** -longest
RECURSIVE Weight(_, _, _)
Weight(cls, v, longest) ==
    IF cls = <<>> THEN 0
    ELSE Cardinality({k \in 1..Len(cls[1]) : Var(cls[1][k]) = v})
             * Pow(2, longest - Len(cls[1]))
         + Weight(Tail(cls), v, longest)

\* _choose_literal_jw
choose_literal_jw(cls) ==
    LET keys == KeysInOrder(Flatten(cls), {})
        longest == Max({Len(cls[i]) : i \in 1..Len(cls)})
        literal_weights ==
            [v \in {keys[i] : i \in 1..Len(keys)} |-> Weight(cls, v, longest)]
    IN  IF keys = <<>> THEN [raised |-> TRUE, literal |-> 0]
        ELSE [raised |-> FALSE, literal |-> FirstMax(keys, literal_weights)]

\* "for var in self.vsids_scores: self.vsids_scores[var] *= self.vsids_decay"
DecayScores(d) ==
    [d EXCEPT !.vsids_scores = [v \in DOMAIN @ |-> BigMul(@[v], vsids_decay_num)],
              !.vsids_scale = BigMul(@, vsids_decay_den)]

\* the variables of a set in the order a Python set of small integers is
\* iterated in: ascending
Ascending(S) ==
    [r \in 1..Cardinality(S) |-> CHOOSE x \in S : Cardinality({y \in S : y < x}) = r - 1]

\* _choose_literal_vsids: reading vsids_scores[v], a defaultdict, enters v with
\* the score 0.0
choose_literal_vsids(d, cls) ==
    LET decayed == DecayScores(d)
        lits == Flatten(cls)
        variables == {Var(lits[i]) : i \in 1..Len(lits)}
        scores == [v \in DOMAIN decayed.vsids_scores \cup variables |->
                      IF v \in DOMAIN decayed.vsids_scores
                      THEN decayed.vsids_scores[v] ELSE BigZero]
    IN  IF variables = {} THEN [raised |-> TRUE, literal |-> 0, d |-> decayed]
        ELSE [raised |-> FALSE,
              literal |-> FirstMaxScore(Ascending(variables), scores),
              d |-> [decayed EXCEPT !.vsids_scores = scores]]

\* DPLLSolver.choose_literal
choose_literal(d, cls) ==
    IF d.heuristic = "vsids" THEN choose_literal_vsids(d, cls)
    ELSE IF d.heuristic = "jw" THEN choose_literal_jw(cls) @@ [d |-> d]
    ELSE choose_literal_moms(cls) @@ [d |-> d]

\* DPLLSolver.solve: sat is the first component of the pair returned, d the
\* solver after the call (d.assignments is the second component when sat),
\* raised the ValueError of choose_literal
RECURSIVE DPLLSolver_solve(_, _)
\* the split without its second branch
Split_first_branch_only(d, cls) ==
    LET c == choose_literal([d EXCEPT !.decisions = @ + 1], cls)
    IN  IF c.raised THEN [sat |-> FALSE, raised |-> TRUE, d |-> c.d]
        ELSE DPLLSolver_solve(c.d, Append(cls, <<c.literal>>))

Split(d, cls) ==
    LET c == choose_literal([d EXCEPT !.decisions = @ + 1], cls)
    IN  IF c.raised THEN [sat |-> FALSE, raised |-> TRUE, d |-> c.d]
        ELSE LET first == DPLLSolver_solve(c.d, Append(cls, <<c.literal>>))
             IN  IF first.sat \/ first.raised THEN first
                 ELSE DPLLSolver_solve(first.d, Append(cls, <<-c.literal>>))

AfterPropagation(d, cls) ==
    LET p == pure_literal_elimination(d, cls)
    IN  IF p.clauses = <<>> THEN [sat |-> TRUE, raised |-> FALSE, d |-> p.d]
        ELSE IF remove_redundant_clauses(p.clauses) = <<>>
        THEN [sat |-> TRUE, raised |-> FALSE, d |-> p.d]
        ELSE Split(p.d, remove_redundant_clauses(p.clauses))

DPLLSolver_solve(d, cls) ==
    LET u == unit_propagation(d, cls)
    IN  IF u.failed THEN [sat |-> FALSE, raised |-> FALSE, d |-> u.d]
        ELSE AfterPropagation(u.d, u.clauses)

\* dpll(clauses, heuristic=...), assignments left at None
dpll(cls, heuristic) == DPLLSolver_solve(NewDPLLSolver(heuristic), cls)

\* the empty clause set
NoClauses == << >>

\* a satisfiable formula on which the branch tried first fails
FailedBranchThenSat == << <<1, 2>>, <<-1, 2>>, <<-1, -2>> >>

\* ---- dpll as a program run ---------------------------------------------------------------
\* dpll(clauses, heuristic=h) for each heuristic: solver is the DPLLSolver the
\* wrapper constructs, result the first component of the pair returned and
\* solver.assignments the second; pc is "raised" when the call ends in the
\* ValueError of choose_literal
DpllInit ==
    /\ clauses \in Formulas \cup {Scenario1, Scenario2, Scenario4, Scenario5, AllFourBinary,
                                  SatNeverFound, EmptyClauseLast, FailedBranchThenSat,
                                  NoClauses}
    /\ solver \in {NewDPLLSolver(heuristic) : heuristic \in Heuristics}
    /\ pc = "dpll"
    /\ conflict = None
    /\ level = 0
    /\ learned_clause = None
    /\ result = FALSE
    /\ num_conflicts = 0
    /\ num_decisions = 0
    /\ num_restarts = 0
    /\ num_clauses_learned = 0

DpllRun ==
    /\ pc = "dpll"
    /\ solver' = DPLLSolver_solve(solver, clauses).d
    /\ result' = DPLLSolver_solve(solver, clauses).sat
    /\ pc' = IF DPLLSolver_solve(solver, clauses).raised THEN "raised" ELSE "returned"
    /\ UNCHANGED <<clauses, conflict, level, learned_clause,
                   num_conflicts, num_decisions, num_restarts, num_clauses_learned>>

DpllSpec == DpllInit /\ [][DpllRun]_vars

\* ---- the Davis-Putnam solver ------------------------------------------------------------
\* K of the example at the end of dp_method.py
DPExample == << <<1, -2>>, <<-1, 2>>, <<2, 3>>, <<-3>> >>

\* a satisfiable formula that has neither a unit clause nor a pure literal
NoUnitNoPure == << <<1, 2>>, <<-1, -2>> >>

\* a satisfiable formula whose branching literal, chosen from K, is gone from
\* the clauses after the first unit propagation
BranchLiteralGone == << <<1>>, <<2, 3>>, <<-2, -3>> >>

\* DavisPutnam.__init__: literal_scores is the dictionary and score_keys the
\* order in which its keys were inserted
NewDavisPutnam(cls, heuristic) ==
    [K |-> cls, heuristic |-> heuristic, literal_scores |-> <<>>, score_keys |-> <<>>]

DPHeuristics == {"jeroslow_wang", "moms", "vsids"}

\* the keys of a dictionary filled from lits, in insertion order: the first
\* occurrence of each literal
FirstOccurrences(lits) ==
    LET idx == {i \in 1..Len(lits) : \A j \in 1..(i - 1) : lits[j] # lits[i]}
    IN  [n \in 1..Cardinality(idx) |->
            lits[CHOOSE i \in idx : Cardinality({j \in idx : j <= i}) = n]]

\* the sum of 2 ** -len(clause) over the occurrences of lit, in units of
\* 2 ** -longest
RECURSIVE LitWeight(_, _, _)
LitWeight(cls, lit, longest) ==
    IF cls = <<>> THEN 0
    ELSE Cardinality({k \in 1..Len(cls[1]) : cls[1][k] = lit})
             * Pow(2, longest - Len(cls[1]))
         + LitWeight(Tail(cls), lit, longest)

\* jeroslow_wang(clauses); 0 stands for None
jeroslow_wang(cls) ==
    LET keys == FirstOccurrences(Flatten(cls))
        longest == Max({Len(cls[i]) : i \in 1..Len(cls)} \cup {0})
        scores == [lit \in {keys[i] : i \in 1..Len(keys)} |-> LitWeight(cls, lit, longest)]
    IN  IF keys = <<>> THEN 0 ELSE FirstMax(keys, scores)

\* moms_heuristic(clauses) with m = 1; 0 stands for None
moms_heuristic(cls) ==
    LET sizes == {Len(cls[i]) : i \in 1..Len(cls)} \ {0}
        min_len == IF sizes = {} THEN 0 ELSE Min(sizes)
        lits == Flatten(SelectSeq(cls, LAMBDA c : Len(c) = min_len))
        keys == FirstOccurrences(lits)
        counts == [l \in Int |-> Cardinality({i \in 1..Len(lits) : lits[i] = l})]
        score == [lit \in {keys[i] : i \in 1..Len(keys)} |->
                    (counts[Var(lit)] + counts[-Var(lit)]) * 2
                        + counts[Var(lit)] * counts[-Var(lit)]]
    IN  IF keys = <<>> THEN 0 ELSE FirstMax(keys, score)

\* vsids_heuristic(literal_scores); 0 stands for None
vsids_heuristic(dp) ==
    IF dp.score_keys = <<>> THEN 0 ELSE FirstMax(dp.score_keys, dp.literal_scores)

\* DavisPutnam.choose_literal: the heuristics read self.K, the clauses the
\* solver was constructed with
DP_choose_literal(dp) ==
    IF dp.heuristic = "jeroslow_wang" THEN jeroslow_wang(dp.K)
    ELSE IF dp.heuristic = "moms" THEN moms_heuristic(dp.K)
    ELSE vsids_heuristic(dp)

\* [x for x in c if x != -lit] of every clause without lit
DropComplement(cls, lit) ==
    [i \in 1..Len(cls) |-> Without(cls[i], -lit)]

\* DavisPutnam.simplify
simplify(cls, lit) ==
    DropComplement(SelectSeq(cls, LAMBDA c : ~Contains(c, lit)), lit)

\* self.literal_scores[lit] += 1
BumpLiteral(dp, lit) ==
    IF lit \in DOMAIN dp.literal_scores
    THEN [dp EXCEPT !.literal_scores[lit] = @ + 1]
    ELSE [dp EXCEPT !.literal_scores = Put(@, lit, 1), !.score_keys = Append(@, lit)]

\* "for lit in units": the bumps and the simplifications of one round
RECURSIVE DP_ProcessUnits(_, _, _)
DP_ProcessUnits(dp, cls, units) ==
    IF units = <<>> THEN [dp |-> dp, clauses |-> cls]
    ELSE DP_ProcessUnits(BumpLiteral(dp, units[1]), simplify(cls, units[1]), Tail(units))

\* [c[0] for c in clauses if len(c)==1]
UnitsOf(cls) ==
    LET unit_clauses == SelectSeq(cls, LAMBDA c : Len(c) = 1)
    IN  [i \in 1..Len(unit_clauses) |-> unit_clauses[i][1]]

\* DavisPutnam.unit_propagate: the clauses returned and the solver with its
\* scores bumped
RECURSIVE DP_unit_propagate(_, _)
DP_unit_propagate(dp, cls) ==
    IF UnitsOf(cls) = <<>> THEN [dp |-> dp, clauses |-> cls]
    ELSE DP_unit_propagate(DP_ProcessUnits(dp, cls, UnitsOf(cls)).dp,
                           DP_ProcessUnits(dp, cls, UnitsOf(cls)).clauses)

\* DavisPutnam.pure_literal_elim: counts is taken once, so a literal is
\* eliminated when its complement is in none of the clauses passed; simplify
\* with such a literal only removes the clauses that contain it
pure_literal_elim(cls) ==
    SelectSeq(cls, LAMBDA c :
        \A k \in 1..Len(c) : \E i \in 1..Len(cls) : Contains(cls[i], -c[k]))

\* DavisPutnam.solve_recursive: sat is the value returned; raised stands for the
\* RecursionError of a call that calls itself with the clauses it was given
RECURSIVE solve_recursive(_, _)
DP_Branch(dp, cls, given, lit) ==
    IF simplify(cls, lit) = given THEN [sat |-> FALSE, raised |-> TRUE, dp |-> dp]
    ELSE LET first == solve_recursive(dp, simplify(cls, lit))
         IN  IF first.sat \/ first.raised THEN first
             ELSE IF simplify(cls, -lit) = given
             THEN [sat |-> FALSE, raised |-> TRUE, dp |-> first.dp]
             ELSE solve_recursive(first.dp, simplify(cls, -lit))

DP_AfterPropagation(dp, cls, given) ==
    IF \E i \in 1..Len(cls) : cls[i] = <<>>
    THEN [sat |-> FALSE, raised |-> FALSE, dp |-> dp]
    ELSE IF pure_literal_elim(cls) = <<>>
    THEN [sat |-> TRUE, raised |-> FALSE, dp |-> dp]
    ELSE IF DP_choose_literal(dp) = 0
    THEN [sat |-> FALSE, raised |-> FALSE, dp |-> dp]
    ELSE DP_Branch(dp, pure_literal_elim(cls), given, DP_choose_literal(dp))

solve_recursive(dp, cls) ==
    DP_AfterPropagation(DP_unit_propagate(dp, cls).dp, DP_unit_propagate(dp, cls).clauses, cls)

\* DavisPutnam(clauses, heuristic).solve()
DavisPutnam_solve(cls, heuristic) ==
    LET r == solve_recursive(NewDavisPutnam(cls, heuristic), cls)
    IN  [raised |-> r.raised,
         answer |-> IF r.sat THEN "satisfiable" ELSE "unsatisfiable"]

\* ---- DavisPutnam.solve as a program run -------------------------------------------------
\* DavisPutnam(clauses, heuristic).solve() for each heuristic: solver is the
\* DavisPutnam object, result the value of sat in solve; pc is "raised" when the
\* call ends in the RecursionError
DpInit ==
    /\ clauses \in Formulas \cup {DPExample, NoUnitNoPure, BranchLiteralGone, NoClauses,
                                  EmptyClauseLast, FailedBranchThenSat, AllFourBinary}
    /\ solver \in {NewDavisPutnam(clauses, heuristic) : heuristic \in DPHeuristics}
    /\ pc = "dp"
    /\ conflict = None
    /\ level = 0
    /\ learned_clause = None
    /\ result = FALSE
    /\ num_conflicts = 0
    /\ num_decisions = 0
    /\ num_restarts = 0
    /\ num_clauses_learned = 0

DpRun ==
    /\ pc = "dp"
    /\ solver' = solve_recursive(solver, solver.K).dp
    /\ result' = solve_recursive(solver, solver.K).sat
    /\ pc' = IF solve_recursive(solver, solver.K).raised THEN "raised" ELSE "returned"
    /\ UNCHANGED <<clauses, conflict, level, learned_clause,
                   num_conflicts, num_decisions, num_restarts, num_clauses_learned>>

DpSpec == DpInit /\ [][DpRun]_vars

\* the string that solve returns
DpAnswer == IF result THEN "satisfiable" ELSE "unsatisfiable"

\* ---- VSIDS_CDCL (NOT_WORKING/cdcl_method.py) ----------------------------------------------
\* VSIDS_CDCL.__init__ and _init_scores: assignment is a set of literals, levels
\* a function on literals; a score is its entry of scores over score_scale
NewVSIDS_CDCL(cls) ==
    [clauses |-> cls,
     assignment |-> {},
     levels |-> <<>>,
     current_level |-> 0,
     decision_stack |-> <<>>,
     scores |-> [v \in AllVars(cls) |-> 0],
     score_scale |-> 1,
     conflict_count |-> 0]

\* "collect unassigned literals" of a clause
Vsids_Unassigned(v, clause) ==
    SelectSeq(clause, LAMBDA l : -l \notin v.assignment /\ l \notin v.assignment)

\* the clauses at which the for loop of unit_propagate breaks: not satisfied,
\* one unassigned literal
Vsids_UnitClauses(v) ==
    {i \in 1..Len(v.clauses) :
        /\ \A k \in 1..Len(v.clauses[i]) : v.clauses[i][k] \notin v.assignment
        /\ Len(Vsids_Unassigned(v, v.clauses[i])) = 1}

\* VSIDS_CDCL.unit_propagate
RECURSIVE Vsids_unit_propagate(_)
Vsids_unit_propagate(v) ==
    IF Vsids_UnitClauses(v) = {} THEN v
    ELSE LET unit == Vsids_Unassigned(v, v.clauses[Min(Vsids_UnitClauses(v))])[1]
         IN  Vsids_unit_propagate([v EXCEPT !.assignment = @ \cup {unit},
                                            !.levels = Put(@, unit, v.current_level)])

\* all(-l in self.assignment for l in clause)
Vsids_Falsified(v, clause) == \A k \in 1..Len(clause) : -clause[k] \in v.assignment

\* "conflict" of solve
Vsids_Conflict(v) == \E i \in 1..Len(v.clauses) : Vsids_Falsified(v, v.clauses[i])

\* VSIDS_CDCL.analyze_conflict on a solver with a falsified clause: the scores
\* bumped, once for each occurrence, and the clause learned appended as solve
\* does
Vsids_analyze_conflict(v) ==
    LET clause == v.clauses[Min({i \in 1..Len(v.clauses) : Vsids_Falsified(v, v.clauses[i])})]
    IN  [v EXCEPT !.scores = [x \in DOMAIN @ |->
                                 @[x] + v.score_scale
                                     * Cardinality({k \in 1..Len(clause) : Var(clause[k]) = x})],
                  !.clauses = Append(@, <<-clause[1]>>)]

\* VSIDS_CDCL.decay_scores when conflict_count is a multiple of decay_interval
Vsids_decay_scores(v) ==
    IF v.conflict_count % decay_interval = 0
    THEN [v EXCEPT !.scores = [x \in DOMAIN @ |-> @[x] * score_decay_num],
                   !.score_scale = @ * score_decay_den]
    ELSE v

\* VSIDS_CDCL.backjump_to: the levels of the removed literals are deleted before
\* the decision stack is pruned, so levels.get finds 0 for every decision above
\* the level and the stack is left as it is
backjump_to(v, lvl) ==
    LET to_remove == {lit \in DOMAIN v.levels : v.levels[lit] > lvl}
        levels == [lit \in DOMAIN v.levels \ to_remove |-> v.levels[lit]]
        kept == Max({0} \cup {n \in 1..Len(v.decision_stack) :
                        ~(/\ v.decision_stack[n] \in DOMAIN levels
                          /\ levels[v.decision_stack[n]] > lvl)})
    IN  [v EXCEPT !.assignment = @ \ to_remove,
                  !.levels = levels,
                  !.decision_stack = SubSeq(@, 1, kept),
                  !.current_level = lvl]

\* the variables choose_literal draws from with random.choice
Vsids_Best(v) ==
    LET unassigned == {x \in DOMAIN v.scores : x \notin v.assignment /\ -x \notin v.assignment}
    IN  {x \in unassigned : \A y \in unassigned : v.scores[y] <= v.scores[x]}

\* "Check if complete" of solve, with num_vars = max(self.scores)
Vsids_Complete(v) ==
    \A x \in 1..Max(DOMAIN v.scores \cup {0}) : x \in v.assignment \/ -x \in v.assignment

\* ---- VSIDS_CDCL.solve as a program run: one action for each way through an
\* iteration of "while True" ------------------------------------------------------------------
VsidsInit ==
    /\ clauses \in Formulas \cup {FailedBranchThenSat, BranchLiteralGone, AllFourBinary}
    /\ solver = NewVSIDS_CDCL(clauses)
    /\ pc = "while"
    /\ conflict = None
    /\ level = 0
    /\ learned_clause = None
    /\ result = FALSE
    /\ num_conflicts = 0
    /\ num_decisions = 0
    /\ num_restarts = 0
    /\ num_clauses_learned = 0

\* "conflict at root level -> UNSAT"
VsidsConflictAtRoot ==
    /\ pc = "while"
    /\ Vsids_Conflict(Vsids_unit_propagate(solver))
    /\ solver.decision_stack = <<>>
    /\ solver' = [Vsids_unit_propagate(solver) EXCEPT !.conflict_count = @ + 1]
    /\ pc' = "return_unsat"
    /\ UNCHANGED <<clauses, conflict, level, learned_clause, result,
                   num_conflicts, num_decisions, num_restarts, num_clauses_learned>>

\* a conflict with a decision on the stack: learn, decay, backjump, continue
VsidsLearn ==
    /\ pc = "while"
    /\ Vsids_Conflict(Vsids_unit_propagate(solver))
    /\ solver.decision_stack # <<>>
    /\ solver.conflict_count < MaxVsidsConflicts
    /\ solver' = backjump_to(Vsids_decay_scores(Vsids_analyze_conflict(
                     [Vsids_unit_propagate(solver) EXCEPT !.conflict_count = @ + 1])), 0)
    /\ UNCHANGED <<clauses, pc, conflict, level, learned_clause, result,
                   num_conflicts, num_decisions, num_restarts, num_clauses_learned>>

VsidsSat ==
    /\ pc = "while"
    /\ ~Vsids_Conflict(Vsids_unit_propagate(solver))
    /\ Vsids_Complete(Vsids_unit_propagate(solver))
    /\ solver' = Vsids_unit_propagate(solver)
    /\ pc' = "return_sat"
    /\ result' = TRUE
    /\ UNCHANGED <<clauses, conflict, level, learned_clause,
                   num_conflicts, num_decisions, num_restarts, num_clauses_learned>>

\* "if var is None: return unsat"
VsidsNoLiteral ==
    /\ pc = "while"
    /\ ~Vsids_Conflict(Vsids_unit_propagate(solver))
    /\ ~Vsids_Complete(Vsids_unit_propagate(solver))
    /\ Vsids_Best(Vsids_unit_propagate(solver)) = {}
    /\ solver' = Vsids_unit_propagate(solver)
    /\ pc' = "return_unsat"
    /\ UNCHANGED <<clauses, conflict, level, learned_clause, result,
                   num_conflicts, num_decisions, num_restarts, num_clauses_learned>>

\* the decision on a variable that random.choice may return
VsidsDecide ==
    /\ pc = "while"
    /\ ~Vsids_Conflict(Vsids_unit_propagate(solver))
    /\ ~Vsids_Complete(Vsids_unit_propagate(solver))
    /\ solver' \in {[Vsids_unit_propagate(solver) EXCEPT
                        !.current_level = @ + 1,
                        !.decision_stack = Append(@, var),
                        !.assignment = @ \cup {var},
                        !.levels = Put(@, var, solver.current_level + 1)] :
                    var \in Vsids_Best(Vsids_unit_propagate(solver))}
    /\ UNCHANGED <<clauses, pc, conflict, level, learned_clause, result,
                   num_conflicts, num_decisions, num_restarts, num_clauses_learned>>

VsidsNext ==
    \/ VsidsConflictAtRoot
    \/ VsidsLearn
    \/ VsidsSat
    \/ VsidsNoLiteral
    \/ VsidsDecide

VsidsSpec == VsidsInit /\ [][VsidsNext]_vars

\* ---- resolution_solver (PigeonHole_Problem/resolution_algorithm.py) -------------------------
\* set(frozenset(clause) for clause in clauses)
FrozenClauses(cls) == {{cls[i][k] : k \in 1..Len(cls[i])} : i \in 1..Len(cls)}

\* the resolvents the for loops of one iteration produce from the pairs of
\* distinct clauses
Resolvents(new_clauses) ==
    {(ci \ {literal}) \cup (cj \ {-literal}) :
        <<ci, cj, literal>> \in
            {t \in new_clauses \X new_clauses \X UNION new_clauses :
                t[1] # t[2] /\ t[3] \in t[1] /\ -t[3] \in t[2]}}

\* ---- resolution_solver as a program run: solver is new_clauses; one action for
\* each way through an iteration of "while True" ---------------------------------------------
ResolutionInit ==
    /\ clauses \in Formulas \cup {Scenario1, NoClauses, EmptyClauseLast, FailedBranchThenSat}
    /\ solver = FrozenClauses(clauses)
    /\ pc = "while"
    /\ conflict = None
    /\ level = 0
    /\ learned_clause = None
    /\ result = FALSE
    /\ num_conflicts = 0
    /\ num_decisions = 0
    /\ num_restarts = 0
    /\ num_clauses_learned = 0

\* time.time() - start_time > 5, at the top of the loop or inside it
ResolutionTimeout ==
    /\ pc = "while"
    /\ pc' = "TIMEOUT"
    /\ UNCHANGED <<clauses, solver, conflict, level, learned_clause, result,
                   num_conflicts, num_decisions, num_restarts, num_clauses_learned>>

\* "Empty clause found"
ResolutionUnsat ==
    /\ pc = "while"
    /\ {} \in Resolvents(solver)
    /\ pc' = "UNSATISFIABLE"
    /\ UNCHANGED <<clauses, solver, conflict, level, learned_clause, result,
                   num_conflicts, num_decisions, num_restarts, num_clauses_learned>>

\* "If no new resolvents, stop"
ResolutionSat ==
    /\ pc = "while"
    /\ {} \notin Resolvents(solver)
    /\ Resolvents(solver) \subseteq solver
    /\ pc' = "SATISFIABLE"
    /\ UNCHANGED <<clauses, solver, conflict, level, learned_clause, result,
                   num_conflicts, num_decisions, num_restarts, num_clauses_learned>>

\* new_clauses.update(resolvents)
ResolutionIterate ==
    /\ pc = "while"
    /\ {} \notin Resolvents(solver)
    /\ ~(Resolvents(solver) \subseteq solver)
    /\ solver' = solver \cup Resolvents(solver)
    /\ UNCHANGED <<clauses, pc, conflict, level, learned_clause, result,
                   num_conflicts, num_decisions, num_restarts, num_clauses_learned>>

ResolutionNext ==
    \/ ResolutionTimeout
    \/ ResolutionUnsat
    \/ ResolutionSat
    \/ ResolutionIterate

ResolutionSpec == ResolutionInit /\ [][ResolutionNext]_vars

\* ---- the DIMACS readers -------------------------------------------------------------------
\* a file is the sequence of its lines that are neither blank, comment nor
\* problem lines (every reader skips those), a line the sequence of the integers
\* its tokens denote
DimacsTokens == {-1, 0, 1, 2}

\* the lines that the token sequence toks makes when it is broken after the
\* positions in breaks
LinesOf(toks, breaks) ==
    LET ends == breaks \cup {Len(toks)}
        EndOf(n) == CHOOSE e \in ends : Cardinality({x \in ends : x <= e}) = n
    IN  [n \in 1..Cardinality(ends) |->
            SubSeq(toks, IF n = 1 THEN 1 ELSE EndOf(n - 1) + 1, EndOf(n))]

DimacsFiles ==
    {<<>>} \cup
    UNION {{LinesOf(toks, breaks) : toks \in [1..n -> DimacsTokens], breaks \in SUBSET (1..(n - 1))} :
              n \in 1..MaxTokens}

Readers == {"SATSolver.parse_cnf_file", "CNFTester.parse_cnf_file", "read_cnf_file",
            "read_dimacs_file"}

\* a reader before the first line: lines is the file, line the index of the
\* line the for loop reads next
NewReader(reader, file) ==
    [reader |-> reader, lines |-> file, line |-> 1, buffer |-> <<>>, clauses |-> <<>>]

\* SATSolver.parse_cnf_file on a line: "Remove trailing 0 if present"
parse_cnf_file_line(r, parts) ==
    LET clause == IF parts[Len(parts)] = 0 THEN SubSeq(parts, 1, Len(parts) - 1) ELSE parts
    IN  IF clause # <<>> THEN [r EXCEPT !.clauses = Append(@, clause)] ELSE r

\* CNFTester.parse_cnf_file on a line: [int(x) for x in line.split() if x != '0']
CNFTester_parse_cnf_file_line(r, parts) ==
    LET literals == SelectSeq(parts, LAMBDA x : x # 0)
    IN  IF literals # <<>> THEN [r EXCEPT !.clauses = Append(@, literals)] ELSE r

\* read_cnf_file on the tokens of a line: "for tok in tokens"
RECURSIVE read_cnf_file_tokens(_, _)
read_cnf_file_tokens(r, tokens) ==
    IF tokens = <<>> THEN r
    ELSE IF tokens[1] # 0
    THEN read_cnf_file_tokens([r EXCEPT !.buffer = Append(@, tokens[1])], Tail(tokens))
    ELSE IF r.buffer # <<>>
    THEN read_cnf_file_tokens([r EXCEPT !.clauses = Append(@, r.buffer), !.buffer = <<>>],
                              Tail(tokens))
    ELSE read_cnf_file_tokens(r, Tail(tokens))

\* read_dimacs_file on a line: a line that does not end in 0 is skipped with a
\* warning
read_dimacs_file_line(r, nums) ==
    IF nums[Len(nums)] # 0 THEN r
    ELSE [r EXCEPT !.clauses = Append(@, SubSeq(nums, 1, Len(nums) - 1))]

\* ---- a reader as a program run: solver is the reader, clauses the list it
\* returns -----------------------------------------------------------------------------------
ReaderInit ==
    /\ solver \in {NewReader(reader, file) : reader \in Readers, file \in DimacsFiles}
    /\ clauses = <<>>
    /\ pc = "for line"
    /\ conflict = None
    /\ level = 0
    /\ learned_clause = None
    /\ result = FALSE
    /\ num_conflicts = 0
    /\ num_decisions = 0
    /\ num_restarts = 0
    /\ num_clauses_learned = 0

\* the body of "for line in f" of the reader
ReadLine ==
    /\ pc = "for line"
    /\ solver.line <= Len(solver.lines)
    /\ solver' =
         [(CASE solver.reader = "SATSolver.parse_cnf_file" ->
                    parse_cnf_file_line(solver, solver.lines[solver.line])
             [] solver.reader = "CNFTester.parse_cnf_file" ->
                    CNFTester_parse_cnf_file_line(solver, solver.lines[solver.line])
             [] solver.reader = "read_cnf_file" ->
                    read_cnf_file_tokens(solver, solver.lines[solver.line])
             [] solver.reader = "read_dimacs_file" ->
                    read_dimacs_file_line(solver, solver.lines[solver.line]))
          EXCEPT !.line = @ + 1]
    /\ UNCHANGED <<clauses, pc, conflict, level, learned_clause, result,
                   num_conflicts, num_decisions, num_restarts, num_clauses_learned>>

\* the end of the file: read_cnf_file adds an unterminated clause, "catch any
\* unterminated clause"; every reader returns its clauses
ReaderReturn ==
    /\ pc = "for line"
    /\ solver.line > Len(solver.lines)
    /\ clauses' = IF solver.reader = "read_cnf_file" /\ solver.buffer # <<>>
                  THEN Append(solver.clauses, solver.buffer)
                  ELSE solver.clauses
    /\ pc' = "parsed"
    /\ UNCHANGED <<solver, conflict, level, learned_clause, result,
                   num_conflicts, num_decisions, num_restarts, num_clauses_learned>>

ReaderNext ==
    \/ ReadLine
    \/ ReaderReturn

ReaderSpec == ReaderInit /\ [][ReaderNext]_vars

\* ---- properties -----------------------------------------------------------------------
\* a partial assignment m (a function on some variables) makes a clause false
Falsified(m, clause) ==
    \A k \in 1..Len(clause) :
        Var(clause[k]) \in DOMAIN m /\ m[Var(clause[k])] # (clause[k] > 0)

\* some total extension of m over the variables vs satisfies every clause
RECURSIVE Extends(_, _, _)
Extends(cls, vs, m) ==
    IF \E i \in 1..Len(cls) : Falsified(m, cls[i]) THEN FALSE
    ELSE IF vs = {} THEN TRUE
    ELSE LET v == Min(vs)
         IN  \/ Extends(cls, vs \ {v}, Put(m, v, TRUE))
             \/ Extends(cls, vs \ {v}, Put(m, v, FALSE))

Satisfiable(cls) == Extends(cls, AllVars(cls), <<>>)

ClauseVars(clause) == {Var(clause[k]) : k \in 1..Len(clause)}

Tautology(clause) == \E j, k \in 1..Len(clause) : clause[j] = -clause[k]

\* every total assignment that satisfies cls satisfies clause: none that makes
\* every literal of clause false satisfies cls
Entails(cls, clause) ==
    \/ Tautology(clause)
    \/ ~Extends(cls, AllVars(cls) \ ClauseVars(clause),
                [v \in ClauseVars(clause) |->
                    \A k \in 1..Len(clause) : Var(clause[k]) = v => clause[k] < 0])

\* C1: when solve returns True, every clause of the formula has a literal whose
\* variable is assigned and whose value makes the literal true.
C1_SatModelSatisfiesEveryClause ==
    pc = "return_sat" =>
        /\ result = TRUE
        /\ \A i \in 1..Len(clauses) : \E k \in 1..Len(clauses[i]) :
              /\ Var(clauses[i][k]) \in DOMAIN solver.assignment
              /\ solver.assignment[Var(clauses[i][k])] = (clauses[i][k] > 0)

\* solve has returned True after at least one decision and one learned clause
C1_Witness ==
    /\ pc = "return_sat"
    /\ solver.decision_level > 0
    /\ solver.learned_clauses # <<>>

\* C2: when solve returns False, by whichever return, the formula is
\* unsatisfiable.
C2_FalseMeansUnsatisfiable ==
    (Returned /\ result = FALSE) => ~Satisfiable(clauses)

\* C3: on the deadline the driver's return value differs from the value it
\* returns for UNSAT (False, at the conflict at level 0), and the resolution
\* harness does not report the result TIMEOUT as UNSATISFIABLE.
C3_TimeoutIsNotTheUnsatValue ==
    pc = "return_timeout" =>
        /\ result # FALSE
        /\ solve_file("TIMEOUT") # "UNSATISFIABLE"

\* C4: run without a deadline, solve terminates with the answer; on the
\* unsatisfiable formula of the four clauses over two variables it eventually
\* reaches a conflict at decision level 0 and returns UNSAT.
C4_UnsatisfiableFormulaReturnsUnsat ==
    clauses = AllFourBinary => <>(pc = "return_conflict_level_0")

\* on the four clauses over two variables no choice of the heuristics makes
\* solve return
AllFourBinaryNeverReturns ==
    clauses = AllFourBinary => ~Returned

\* each step of solve on a formula over the variables 1..NumVars is, once the
\* heuristics are forgotten, a step SearchSpec allows
StepIsSearchStep ==
    /\ Setup => Forget(solver') = solver'
    /\ Restart => Forget(solver') = Forget(perform_restart(Forget(solver)))
    /\ Propagate =>
          \E order \in Orders(ClauseSet(solver.learned_clauses)) :
              LET r == unit_propagate(Forget(solver), clauses \o order)
              IN  Forget(solver') = Forget(r.solver) /\ conflict' = r.conflict
    /\ Analyze =>
          \E kept \in SUBSET ClauseSet(solver.learned_clauses) :
              LET r == analyze_conflict(Forget(solver), conflict)
              IN  /\ Forget(solver') =
                        Forget([r.solver EXCEPT !.learned_clauses = Sorted(kept)])
                  /\ level' = r.level
                  /\ learned_clause' = r.learned_clause
    /\ Backtrack => Forget(solver') = backtrack(Forget(solver), level)
    /\ Learn =>
          Forget(solver') =
              Forget([Forget(solver) EXCEPT !.learned_clauses = Append(@, learned_clause)])
    /\ Decide =>
          \E best_var \in Unassigned(solver) :
              Forget(solver') = Assign(Forget(solver), best_var)

SearchSimulatesSolve ==
    [][(clauses \in Formulas \cup {AllFourBinary}) => StepIsSearchStep]_vars

\* C5: the clause analyze_conflict returns has exactly one literal whose variable
\* is assigned at the current decision level, every other literal being of a
\* variable assigned at a strictly lower level.
CurrentLevelLits(s, clause) ==
    {k \in 1..Len(clause) :
        Var(clause[k]) \in DOMAIN s.level /\ s.level[Var(clause[k])] = s.decision_level}

C5_ExactlyOneCurrentLevelLiteral ==
    pc = "backtrack" =>
        /\ Cardinality(CurrentLevelLits(solver, learned_clause)) = 1
        /\ \A k \in 1..Len(learned_clause) :
              /\ Var(learned_clause[k]) \in DOMAIN solver.level
              /\ solver.level[Var(learned_clause[k])] <= solver.decision_level

\* C6: once the driver has backtracked and appended the learned clause, the
\* clause is unit under the assignment that remains: one literal unassigned,
\* every other literal false.
IsUnit(a, clause) ==
    /\ ~IsSatisfied(a, clause)
    /\ Len(UnassignedLits(a, clause)) = 1

C6_LearnedClauseIsUnitAfterBackjump ==
    [][Learn => IsUnit(solver'.assignment, learned_clause)]_vars

\* C7: every learned clause, and the clause analyze_conflict has just returned,
\* is satisfied by every total assignment that satisfies the original clauses.
C7_LearnedClausesAreConsequences ==
    /\ \A i \in 1..Len(solver.learned_clauses) :
          Entails(clauses, solver.learned_clauses[i])
    /\ pc \in {"backtrack", "learn"} => Entails(clauses, learned_clause)

\* a learned clause that has a literal taken from an antecedent, not from the
\* conflict clause
C7_Witness ==
    /\ pc = "learn"
    /\ \E k \in 1..Len(learned_clause) :
          \A j \in 1..Len(conflict) : conflict[j] # learned_clause[k]

\* the analysis has stopped at its limit of resolution steps with more than one
\* current-level literal left, and the clause is long enough to be minimized
C7_WitnessLimit ==
    /\ pc = "learn"
    /\ Len(learned_clause) > minimize_above
    /\ Len(conflict) > max_iterations + 1

\* C8: a call backtrack(l), from the conflict branch or from a restart, leaves
\* no variable of level above l on the trail, unassigns every variable that had
\* a level above l, and sets decision_level to l.
BacktrackPost(s, t, l) ==
    /\ \A i \in 1..Len(t.trail) : t.level[t.trail[i]] <= l
    /\ \A v \in DOMAIN s.level : s.level[v] > l => v \notin DOMAIN t.assignment
    /\ \A v \in DOMAIN t.level : t.level[v] <= l
    /\ t.decision_level = l

C8_BacktrackPostcondition ==
    [][/\ Backtrack => BacktrackPost(solver, solver', level)
       /\ Restart => BacktrackPost(solver, solver', 0)]_vars

\* a backjump to a level above 0 that has removed assignments
C8_Witness ==
    /\ pc = "learn"
    /\ level > 0
    /\ solver.decision_level = level
    /\ \E v \in 1..solver.max_var : v \notin DOMAIN solver.assignment

\* a restart has backtracked to level 0
C8_WitnessRestart ==
    /\ pc = "propagate"
    /\ solver.restarts > 0

\* C9: for every assigned variable v that has an antecedent C, C holds the
\* literal of v that is true, every other literal of C is false, and the
\* variables of the other literals have a level of at most the level of v.
AntecedentOk(s, v) ==
    LET C == s.antecedent[v]
    IN  /\ \E k \in 1..Len(C) : Var(C[k]) = v /\ LitTrue(s.assignment, C[k])
        /\ \A k \in 1..Len(C) :
              Var(C[k]) # v =>
                  /\ Var(C[k]) \in DOMAIN s.assignment
                  /\ ~LitTrue(s.assignment, C[k])
                  /\ s.level[Var(C[k])] <= s.level[v]

C9_AntecedentsAreReasons ==
    \A v \in DOMAIN solver.assignment :
        v \in DOMAIN solver.antecedent => AntecedentOk(solver, v)

\* an implied variable whose antecedent has a literal of a lower level
C9_Witness ==
    \E v \in DOMAIN solver.antecedent :
        /\ v \in DOMAIN solver.assignment
        /\ \E k \in 1..Len(solver.antecedent[v]) :
              /\ Var(solver.antecedent[v][k]) \in DOMAIN solver.level
              /\ solver.level[Var(solver.antecedent[v][k])] < solver.level[v]

\* C10: along the trail the levels never decrease; each level 1..decision_level
\* occurs and begins with one decision entry (no antecedent), followed only by
\* entries with antecedents; decision_level is the greatest level on the trail,
\* 0 when there is none.
TrailLevel(s, i) == s.level[s.trail[i]]

C10_TrailStructure ==
    LET s == solver
        n == Len(s.trail)
    IN  /\ \A i \in 1..n : s.trail[i] \in DOMAIN s.level
        /\ \A i \in 1..(n - 1) : TrailLevel(s, i) <= TrailLevel(s, i + 1)
        /\ \A l \in 1..s.decision_level : \E i \in 1..n : TrailLevel(s, i) = l
        /\ \A i \in 1..n :
              TrailLevel(s, i) > 0 =>
                  ((s.trail[i] \notin DOMAIN s.antecedent)
                      <=> (i = 1 \/ TrailLevel(s, i - 1) < TrailLevel(s, i)))
        /\ s.decision_level = Max({0} \cup {TrailLevel(s, i) : i \in 1..n})

\* two decision levels, the second with an implied entry after its decision,
\* reached after a backjump
C10_Witness ==
    /\ solver.decision_level >= 2
    /\ solver.learned_clauses # <<>>
    /\ \E i \in 2..Len(solver.trail) :
          /\ TrailLevel(solver, i) = 2
          /\ solver.trail[i] \in DOMAIN solver.antecedent

\* C11: no variable is twice on the trail, and the variables on the trail are
\* the keys of assignment and the keys of level; so a propagation or a decision
\* never assigns a variable that is assigned.
TrailVars(s) == {s.trail[i] : i \in 1..Len(s.trail)}

C11_TrailHasEachAssignedVariableOnce ==
    /\ \A i, j \in 1..Len(solver.trail) : i # j => solver.trail[i] # solver.trail[j]
    /\ TrailVars(solver) = DOMAIN solver.assignment
    /\ TrailVars(solver) = DOMAIN solver.level

\* a trail with a decision and an implied entry, built again after a backjump
C11_Witness ==
    /\ solver.learned_clauses # <<>>
    /\ Len(solver.trail) >= 2
    /\ \E i, j \in 1..Len(solver.trail) :
          /\ solver.trail[i] \in DOMAIN solver.antecedent
          /\ solver.trail[j] \notin DOMAIN solver.antecedent

\* C12: unit_propagate only extends the assignment (an assigned variable keeps
\* its value, level and antecedent; a new assignment has the current
\* decision_level); with no conflict returned, no clause of the list is
\* falsified and none is unit; a clause returned has every literal false.
Extended(s, t) ==
    /\ t.decision_level = s.decision_level
    /\ \A v \in DOMAIN s.assignment :
          /\ v \in DOMAIN t.assignment
          /\ t.assignment[v] = s.assignment[v]
          /\ t.level[v] = s.level[v]
          /\ (v \in DOMAIN s.antecedent) = (v \in DOMAIN t.antecedent)
          /\ v \in DOMAIN s.antecedent => t.antecedent[v] = s.antecedent[v]
    /\ \A v \in DOMAIN t.assignment \ DOMAIN s.assignment :
          t.level[v] = s.decision_level

PropagatePost(s, t, cls, returned) ==
    /\ Extended(s, t)
    /\ returned = None =>
          \A i \in 1..Len(cls) :
              /\ ~Falsified(t.assignment, cls[i])
              /\ ~IsUnit(t.assignment, cls[i])
    /\ returned # None => Falsified(t.assignment, returned)

C12_UnitPropagateContract ==
    [][Propagate =>
          PropagatePost(solver, solver', clauses \o solver.learned_clauses, conflict')]_vars

\* a propagation at a level above 0, with learned clauses in the list, that has
\* assigned a variable and returned no conflict
C12_Witness ==
    /\ pc = "no_conflict"
    /\ solver.decision_level > 0
    /\ solver.learned_clauses # <<>>
    /\ \E v \in DOMAIN solver.antecedent : solver.level[v] = solver.decision_level

\* C13: when the driver returns SAT, every variable of 1..max_var is assigned.
C13_SatModelIsTotal ==
    pc = "return_sat" => DOMAIN solver.assignment = 1..solver.max_var

\* the Luby sequence: the k-th value is 2^(i-1) when k = 2^i - 1, and otherwise
\* the value at k - 2^(i-1) + 1, where 2^(i-1) <= k < 2^i - 1
RECURSIVE Pow2(_)
Pow2(i) == IF i = 0 THEN 1 ELSE 2 * Pow2(i - 1)

LubyIndex(k) == CHOOSE i \in 1..(k + 1) : Pow2(i - 1) <= k /\ k <= Pow2(i) - 1

RECURSIVE Luby(_)
Luby(k) ==
    LET i == LubyIndex(k)
    IN  IF k = Pow2(i) - 1 THEN Pow2(i - 1) ELSE Luby(k - Pow2(i - 1) + 1)

\* C14: the values held in luby_sequence are the Luby sequence 1, 1, 2, 1, 1, 2,
\* 4, ...: the k-th value held is the k-th Luby value, for every k.
C14_LubySequenceHeld ==
    \A k \in 1..Len(solver.luby_sequence) : solver.luby_sequence[k] = Luby(k)

\* the value the restart controller holds: luby_sequence[-1]
CurrentLuby(s) == s.luby_sequence[Len(s.luby_sequence)]

\* a restart is performed in the step
RestartStep == solver'.restarts # solver.restarts

AfterRestart(s, t) ==
    /\ t.decision_level = 0
    /\ \A i \in 1..Len(t.trail) : t.level[t.trail[i]] = 0
    /\ Len(t.trail) <= Len(s.trail)
    /\ t.trail = SubSeq(s.trail, 1, Len(t.trail))
    /\ \A i \in (Len(t.trail) + 1)..Len(s.trail) : s.level[s.trail[i]] > 0
    /\ t.conflicts = 0
    /\ t.restarts = s.restarts + 1
    /\ Len(t.luby_sequence) = Len(s.luby_sequence) + 1
    /\ SubSeq(t.luby_sequence, 1, Len(s.luby_sequence)) = s.luby_sequence

RestartDiscipline ==
    /\ (pc = "loop" /\ pc' # "return_timeout") =>
          (RestartStep <=> solver.conflicts >= luby_base * CurrentLuby(solver))
    /\ pc # "loop" => ~RestartStep
    /\ RestartStep => AfterRestart(solver, solver')
    /\ solver'.conflicts <= luby_base * CurrentLuby(solver')

RestartFields ==
    {"trail", "assignment", "level", "antecedent", "decision_level",
     "restarts", "conflicts", "luby_sequence"}

\* C16: perform_restart leaves the variable activities (with the bump value,
\* the unit they are counted in), the saved phases, the learned clauses and
\* their activities unchanged; it changes no field other than trail, assignment,
\* level, antecedent, decision_level, restarts, conflicts and luby_sequence.
C16_RestartFrame ==
    [][RestartStep =>
          /\ solver'.activity = solver.activity
          /\ solver'.act_scale = solver.act_scale
          /\ solver'.saved_phases = solver.saved_phases
          /\ solver'.learned_clauses = solver.learned_clauses
          /\ solver'.clause_activity = solver.clause_activity
          /\ \A f \in DOMAIN solver \ RestartFields : solver'[f] = solver[f]]_vars

\* a restart has been performed on a solver that holds learned clauses, bumped
\* and decayed activities and a saved phase of True
C16_Witness ==
    /\ pc = "propagate"
    /\ solver.restarts = 1
    /\ solver.learned_clauses # <<>>
    /\ solver.act_scale # BigOne
    /\ \E v \in DOMAIN solver.saved_phases : solver.saved_phases[v]

\* no empty clause and no tautology
WellFormed(cls) ==
    \A i \in 1..Len(cls) : cls[i] # <<>> /\ ~Tautology(cls[i])

\* C17: on a formula with no empty clause and no tautology, the value solve
\* returns (True for SAT, False for UNSAT) is the answer of dpll(clauses) on the
\* same formula.
C17_SameAnswerAsDpll ==
    (Returned /\ WellFormed(clauses)) => result = dpll(clauses, "moms").sat

\* C18: on a formula with an empty clause solve returns False before the
\* loop: it never propagates, decides, analyses a conflict or restarts, and the
\* trail, the assignment and the learned clauses stay empty.
C18_EmptyClauseReturnsBeforeLoop ==
    (\E i \in 1..Len(clauses) : clauses[i] = <<>>) =>
        /\ pc \in {"start", "return_empty_clause"}
        /\ pc = "return_empty_clause" => result = FALSE
        /\ solver.trail = <<>>
        /\ solver.assignment = <<>>
        /\ solver.learned_clauses = <<>>
        /\ solver.decision_level = 0
        /\ solver.restarts = 0 /\ solver.conflicts = 0
        /\ num_conflicts = 0 /\ num_decisions = 0 /\ num_restarts = 0
        /\ num_clauses_learned = 0

\* solve has returned on a formula whose empty clause comes after a unit clause
C18_Witness ==
    /\ pc = "return_empty_clause"
    /\ Len(clauses[1]) = 1
    /\ clauses[Len(clauses)] = <<>>

\* C19 as stated: on {{1,-2},{-1,2},{2,3},{-3}}, the example input of the
\* Davis-Putnam solver, the answer of solve is UNSAT.
C19_Scenario1AnsweredUnsat ==
    /\ Scenario1 = DPExample
    /\ (clauses = Scenario1 /\ Returned) => result = FALSE

\* C19 amended: on {{1,-2},{-1,2},{2,3},{-3}}, the example input of the
\* Davis-Putnam solver, which 1 = True, 2 = True, 3 = False satisfies, the
\* answer of solve is SAT with that model, found in the first pass of the loop
\* without a decision; the time limit can end the run only before that pass.
C19_Scenario1AnsweredSat ==
    /\ Scenario1 = DPExample
    /\ (clauses = Scenario1 /\ Returned /\ pc # "return_timeout") =>
          /\ result = TRUE
          /\ solver.assignment = (1 :> TRUE) @@ (2 :> TRUE) @@ (3 :> FALSE)
          /\ num_decisions = 0 /\ num_conflicts = 0
    /\ (clauses = Scenario1 /\ pc = "return_timeout") => solver.trail = <<>>

\* solve has returned True on the formula
C19_Witness == clauses = Scenario1 /\ pc = "return_sat" /\ result = TRUE

\* C20: on the clauses of generate_pigeonhole_clauses(3, 2) solve returns
\* UNSAT by a conflict at decision level 0, and by no other return.
C20_PigeonholeEndsAtLevel0Conflict ==
    (clauses = PigeonholeGenerated /\ Returned) =>
        pc = "return_conflict_level_0" /\ result = FALSE

\* within MaxConflicts conflicts the run on these clauses meets no conflict at
\* decision level 0
PigeonholeMeetsNoConflictAtLevel0 ==
    clauses = PigeonholeGenerated => pc # "return_conflict_level_0"

\* ---- C21 ----
\* the literals that the clauses of cls force under the set L of true literals:
\* the one literal left in a clause whose other literals are all false
LitsOf(cls) == UNION {{cls[i][k] : k \in 1..Len(cls[i])} : i \in 1..Len(cls)}

ForcedBy(cls, L) ==
    {lit \in LitsOf(cls) :
        \E i \in 1..Len(cls) :
            /\ \E k \in 1..Len(cls[i]) : cls[i][k] = lit
            /\ \A k \in 1..Len(cls[i]) : cls[i][k] # lit => -cls[i][k] \in L}

\* the closure of L under ForcedBy
RECURSIVE UnitClosure(_, _)
UnitClosure(cls, L) ==
    IF ForcedBy(cls, L) \subseteq L THEN L
    ELSE UnitClosure(cls, L \cup ForcedBy(cls, L))

\* unit propagation from the empty assignment makes a literal of every clause
\* true and none of them false
PropagationSatisfies(cls) ==
    LET L == UnitClosure(cls, {})
    IN  /\ \A lit \in L : -lit \notin L
        /\ \A i \in 1..Len(cls) : \E k \in 1..Len(cls[i]) : cls[i][k] \in L

\* unit propagation from the empty assignment makes every literal of some
\* clause false
PropagationFalsifies(cls) ==
    LET L == UnitClosure(cls, {})
    IN  \E i \in 1..Len(cls) : \A k \in 1..Len(cls[i]) : -cls[i][k] \in L

TrueLits(a) == {lit \in UNION {{v, -v} : v \in DOMAIN a} : LitTrue(a, lit)}

\* C21: when unit propagation from the empty assignment satisfies every clause,
\* the driver returns SAT with no decision, at decision level 0, with exactly
\* the propagated literals true; when it falsifies a clause, the driver returns
\* UNSAT with no decision at level 0. (The only other return is the timeout.)
C21_PropagationAloneDecides ==
    (Returned /\ pc # "return_timeout") =>
        /\ PropagationSatisfies(clauses) =>
              /\ pc = "return_sat" /\ result = TRUE
              /\ num_decisions = 0 /\ solver.decision_level = 0
              /\ TrueLits(solver.assignment) = UnitClosure(clauses, {})
        /\ PropagationFalsifies(clauses) =>
              /\ pc \in {"return_conflict_level_0", "return_empty_clause"}
              /\ result = FALSE
              /\ num_decisions = 0 /\ solver.decision_level = 0

C21_Witness ==
    /\ clauses = Scenario4
    /\ pc = "return_sat"
    /\ num_decisions = 0
    /\ Len(solver.trail) = 4

C21_WitnessUnsat ==
    /\ clauses = <<<<-1>>, <<1>>>>
    /\ pc = "return_conflict_level_0"
    /\ num_decisions = 0

\* ---- C22 ----
\* the assignments dictionary makes a literal of every clause true
ModelOf(assignments, cls) ==
    \A i \in 1..Len(cls) :
        \E k \in 1..Len(cls[i]) :
            /\ Var(cls[i][k]) \in DOMAIN assignments
            /\ assignments[Var(cls[i][k])] = (cls[i][k] > 0)

C23_EmptyClauseAnsweredUnsat ==
    (pc # "dpll") =>
        /\ HasEmptyClause(clauses) => (pc = "returned" /\ result = FALSE)
        /\ clauses = NoClauses => (pc = "returned" /\ result = TRUE)

\* the part of C23 that the solver keeps: no True answer on a clause set with
\* an empty clause, and True on the empty clause set
DpllNeverSatWithEmptyClause ==
    (pc # "dpll") =>
        /\ HasEmptyClause(clauses) => ~(pc = "returned" /\ result = TRUE)
        /\ clauses = NoClauses => (pc = "returned" /\ result = TRUE)

\* the call ends in the ValueError under each heuristic
DpllRaisesUnderEachHeuristic ==
    \A h \in Heuristics : dpll(<<<<>>>>, h).raised

\* the Davis-Putnam half of C23: DavisPutnam.solve answers "unsatisfiable" on a
\* clause set with an empty clause and "satisfiable" on the empty clause set
DpEmptyClauseAnsweredUnsat ==
    (pc # "dp") =>
        /\ HasEmptyClause(clauses) => (pc = "returned" /\ DpAnswer = "unsatisfiable")
        /\ clauses = NoClauses => (pc = "returned" /\ DpAnswer = "satisfiable")

\* ---- C24 ----
\* C24: under each of jeroslow_wang, moms and vsids, DavisPutnam.solve returns
\* "satisfiable" exactly when the formula is satisfiable (and so returns
\* "unsatisfiable" exactly when it is not).
C24_DavisPutnamAnswer ==
    (pc # "dp") =>
        /\ pc = "returned"
        /\ (DpAnswer = "satisfiable") <=> Satisfiable(clauses)

\* what the solver keeps: it never answers "satisfiable" on an unsatisfiable
\* formula, and it answers every unsatisfiable formula
DpSatisfiableAnswerIsRight ==
    (pc # "dp") =>
        /\ (pc = "returned" /\ DpAnswer = "satisfiable") => Satisfiable(clauses)
        /\ ~Satisfiable(clauses) => pc = "returned"

\* the wrong answer under vsids and the RecursionError under each heuristic
DpFailures ==
    /\ DavisPutnam_solve(NoUnitNoPure, "vsids") = [raised |-> FALSE, answer |-> "unsatisfiable"]
    /\ \A h \in DPHeuristics : DavisPutnam_solve(BranchLiteralGone, h).raised

\* ---- C25 ----
\* C25: VSIDS_CDCL.solve returns "sat" only on a satisfiable formula and "unsat"
\* only on an unsatisfiable one, whatever random.choice returns and whether or
\* not the variable indices are contiguous from 1.
C25_VsidsAnswerIsRight ==
    /\ pc = "return_sat" => Satisfiable(clauses)
    /\ pc = "return_unsat" => ~Satisfiable(clauses)

\* what the solver keeps: "sat" is always right, and "unsat" is right when the
\* variables of the formula are 1..n
VsidsRightOnContiguousVariables ==
    /\ pc = "return_sat" => Satisfiable(clauses)
    /\ (pc = "return_unsat" /\ AllVars(clauses) = 1..Max(AllVars(clauses) \cup {0}))
           => ~Satisfiable(clauses)

\* backjump_to leaves the decision stack as it is
VsidsStackNeverPruned ==
    [][Len(solver'.decision_stack) >= Len(solver.decision_stack)]_vars

\* ---- C26 ----
\* C26: when resolution_solver does not time out, it returns "UNSATISFIABLE"
\* exactly on the unsatisfiable clause sets and "SATISFIABLE" exactly on the
\* satisfiable ones, inputs with an empty clause included.
C26_ResolutionAnswerIsRight ==
    /\ pc = "UNSATISFIABLE" => ~Satisfiable(clauses)
    /\ pc = "SATISFIABLE" => Satisfiable(clauses)

\* what the solver keeps: the answer is right when no input clause is empty
ResolutionRightWithoutEmptyClause ==
    ~HasEmptyClause(clauses) => C26_ResolutionAnswerIsRight

\* an empty input clause is never resolved with anything
ResolutionAnswersSatOnEmptyClause ==
    (clauses = <<<<>>>> /\ pc # "TIMEOUT") => (pc = "while" \/ pc = "SATISFIABLE")

\* ---- C27 ----
\* the token stream of a file
TokenStream(file) == Flatten(file)

\* the clauses of a token stream: the non-empty runs of tokens between one 0
\* (or the start) and the next 0 (or the end)
SplitAtZeros(toks) ==
    LET marks == {i \in 1..Len(toks) : toks[i] = 0} \cup {0, Len(toks) + 1}
        starts == {m \in marks : m <= Len(toks) /\ m + 1 \notin marks}
        StartOf(n) == CHOOSE m \in starts : Cardinality({x \in starts : x <= m}) = n
        NextMark(m) == Min({x \in marks : x > m})
    IN  [n \in 1..Cardinality(starts) |-> SubSeq(toks, StartOf(n) + 1, NextMark(StartOf(n)) - 1)]

\* every clause of the file is terminated by 0
Terminated(file) ==
    TokenStream(file) = <<>> \/ TokenStream(file)[Len(TokenStream(file))] = 0

\* C27: SATSolver.parse_cnf_file, CNFTester.parse_cnf_file and read_cnf_file
\* return the clauses that the zeros of the token stream delimit, however the
\* tokens are laid out in lines, and no clause they return contains 0.
C27_ClausesSplitAtZeros ==
    (/\ pc = "parsed"
     /\ solver.reader \in {"SATSolver.parse_cnf_file", "CNFTester.parse_cnf_file", "read_cnf_file"}
     /\ Terminated(solver.lines))
        => /\ clauses = SplitAtZeros(TokenStream(solver.lines))
           /\ \A i \in 1..Len(clauses) : ~Contains(clauses[i], 0)

\* what the readers keep: read_cnf_file splits at the zeros, terminated or not,
\* and the two line-based readers do so when every line holds one whole clause
ReadCnfFileSplitsAtZeros ==
    (pc = "parsed" /\ solver.reader = "read_cnf_file")
        => clauses = SplitAtZeros(TokenStream(solver.lines))

OneClausePerLine(file) ==
    \A n \in 1..Len(file) :
        /\ file[n][Len(file[n])] = 0
        /\ \A k \in 1..(Len(file[n]) - 1) : file[n][k] # 0

LineReadersRightOnOneClausePerLine ==
    (/\ pc = "parsed"
     /\ solver.reader \in {"SATSolver.parse_cnf_file", "CNFTester.parse_cnf_file"}
     /\ OneClausePerLine(solver.lines))
        => clauses = SplitAtZeros(TokenStream(solver.lines))

\* ---- C28 ----
\* C28: no clause that SATSolver.parse_cnf_file hands to the CDCL driver, and
\* none that read_dimacs_file hands to the Davis-Putnam solver, contains a
\* variable and its negation.
C28_TautologiesDroppedOnIngest ==
    (pc = "parsed" /\ solver.reader \in {"SATSolver.parse_cnf_file", "read_dimacs_file"})
        => \A i \in 1..Len(clauses) : ~Tautology(clauses[i])

\* the line "1 -1 0" is read as the clause [1, -1] by both readers
TautologyIsKept ==
    /\ parse_cnf_file_line(NewReader("SATSolver.parse_cnf_file", <<>>), <<1, -1, 0>>).clauses
           = <<<<1, -1>>>>
    /\ read_dimacs_file_line(NewReader("read_dimacs_file", <<>>), <<1, -1, 0>>).clauses
           = <<<<1, -1>>>>

\* ---- C29 ----
\* the analysis states at which the while loop of analyze_conflict takes a
\* literal, from the analysis state a on
RECURSIVE ResolutionSteps(_)
ResolutionSteps(a) ==
    IF Resolving(a) THEN {a} \cup ResolutionSteps(ResolveStep(a)) ELSE {}

\* the place of a variable on the trail
TrailIndex(s, var) == Max({i \in 1..Len(s.trail) : s.trail[i] = var})

\* C29: in each resolution step of analyze_conflict the literal taken is, among
\* the current-level literals pending, the one whose variable is latest on the
\* trail; no literal without an antecedent (a decision) is taken while another
\* current-level literal is pending.
C29_ResolvesOnMostRecentLiteral ==
    (pc = "conflict" /\ solver.decision_level # 0) =>
        \A a \in ResolutionSteps(StartAnalysis(solver, conflict)) :
            /\ \A k \in 1..Len(a.cur) :
                   TrailIndex(a.solver, Var(a.cur[k]))
                       <= TrailIndex(a.solver, Var(ChosenLiteral(a)))
            /\ Var(ChosenLiteral(a)) \in DOMAIN a.solver.antecedent

\* what the loop does: it takes the pending literal whose variable is earliest
\* on the trail
ResolvesOnEarliestLiteral ==
    (pc = "conflict" /\ solver.decision_level # 0) =>
        \A a \in ResolutionSteps(StartAnalysis(solver, conflict)) :
            \A k \in 1..Len(a.cur) :
                TrailIndex(a.solver, Var(ChosenLiteral(a)))
                    <= TrailIndex(a.solver, Var(a.cur[k]))

\* ---- C30 ----
\* the levels below the conflict level of the variables of a clause
LevelsBelow(s, clause) ==
    {s.level[Var(clause[k])] : k \in {j \in 1..Len(clause) :
        Var(clause[j]) \in DOMAIN s.level /\ s.level[Var(clause[j])] < s.decision_level}}

\* the list analyze_conflict holds in learned when it looks for back_level
LearnedBeforeBackLevel(s, conflict_clause) ==
    AddRemaining(AtLimit(ResolveLoop(StartAnalysis(s, conflict_clause)))).learned

Reverse(seq) == [i \in 1..Len(seq) |-> seq[Len(seq) + 1 - i]]

\* seq from its n-th element on, followed by its first n - 1 elements
Rotate(seq, n) == SubSeq(seq, n, Len(seq)) \o SubSeq(seq, 1, n - 1)

\* C30: the level analyze_conflict returns is the greatest level below
\* decision_level among the variables of the clause it returns, 0 when there is
\* none, and the loop that finds it gives the same level when it visits the
\* literals in another order.
C30_BackLevelIsHighestBelowConflictLevel ==
    [][Analyze =>
          /\ level' = Max({0} \cup LevelsBelow(solver, learned_clause'))
          /\ \A n \in 1..Len(LearnedBeforeBackLevel(solver, conflict)) :
                 \A visited \in {Rotate(LearnedBeforeBackLevel(solver, conflict), n),
                                 Reverse(Rotate(LearnedBeforeBackLevel(solver, conflict), n))} :
                     BackLevel(solver, visited, [back_level |-> 0, second_highest |-> 0])
                         = level']_vars

\* a backjump to a level above 0, below a conflict two levels up
C30_Witness ==
    /\ pc = "backtrack"
    /\ level >= 1
    /\ level < solver.decision_level
    /\ level \in LevelsBelow(solver, learned_clause)

\* a clause with no literal below the conflict level
C30_WitnessLevel0 ==
    /\ pc = "backtrack"
    /\ level = 0
    /\ LevelsBelow(solver, learned_clause) = {}

\* ---- C31 ---------------------------------------------------------------------
\* the contract of make_decision between the state s it is called in and the
\* state and return value r it leaves
DecisionPost(s, r) ==
    LET free == {v \in 1..s.max_var : v \notin DOMAIN s.assignment}
    IN  IF free = {}
        THEN r.decided = FALSE /\ r.solver = s
        ELSE /\ r.decided = TRUE
             /\ \E v \in free :
                  /\ \A w \in free : ~BigLess(Activity(s, v), Activity(s, w))
                  /\ \A w \in free : w < v => BigLess(Activity(s, w), Activity(s, v))
                  /\ DOMAIN r.solver.assignment = DOMAIN s.assignment \cup {v}
                  /\ \A u \in DOMAIN s.assignment :
                         r.solver.assignment[u] = s.assignment[u]
                  /\ r.solver.level = Put(s.level, v, s.decision_level + 1)
                  /\ r.solver.trail = Append(s.trail, v)
                  /\ v \notin DOMAIN r.solver.antecedent
                  /\ r.solver.decision_level = s.decision_level + 1
                  /\ [r.solver EXCEPT !.assignment = s.assignment,
                                      !.level = s.level,
                                      !.trail = s.trail,
                                      !.decision_level = s.decision_level] = s

\* C31: called in any state the solver reaches, make_decision assigns exactly
\* one unassigned variable of 1..max_var, one of greatest activity among the
\* unassigned and the lowest such index, at level decision_level + 1, with no
\* antecedent, and raises decision_level by one; with every variable assigned
\* it returns False and leaves the solver as it was.
C31_MakeDecisionContract == DecisionPost(solver, make_decision(solver))

\* the driver is about to decide, and the activities, not the index, choose
C31_Witness ==
    /\ pc = "no_conflict"
    /\ ~AllSatisfied(solver, clauses)
    /\ Cardinality(Unassigned(solver)) >= 2
    /\ make_decision(solver).decided
    /\ solver.decision_level >= 1
    /\ \E w \in Unassigned(solver) : w < BestVar(solver)

\* every variable is assigned and make_decision reports no decision
C31_WitnessNoDecision ==
    /\ solver.max_var >= 2
    /\ Unassigned(solver) = {}
    /\ ~make_decision(solver).decided

\* ---- C32 ---------------------------------------------------------------------
\* what one step of solve does to variable v: a variable keeps its value while
\* it is assigned; the step that unassigns it leaves that value as its saved
\* phase; the saved phase stays while it is unassigned, and is False from the
\* start; a decision gives it the saved phase
PhaseStep(v) ==
    LET s == solver
        t == solver'
    IN  IF pc = "start"
        THEN v \notin DOMAIN t.assignment /\ t.saved_phases[v] = FALSE
        ELSE /\ (v \in DOMAIN s.assignment /\ v \in DOMAIN t.assignment)
                    => t.assignment[v] = s.assignment[v]
             /\ (v \in DOMAIN s.assignment /\ v \notin DOMAIN t.assignment)
                    => t.saved_phases[v] = s.assignment[v]
             /\ (v \notin DOMAIN s.assignment /\ v \notin DOMAIN t.assignment)
                    => t.saved_phases[v] = s.saved_phases[v]
             /\ (pc = "no_conflict" /\ v \notin DOMAIN s.assignment
                                    /\ v \in DOMAIN t.assignment)
                    => t.assignment[v] = s.saved_phases[v]

\* C32: a decision gives its variable the value the variable held when it was
\* last unassigned, whether a decision or a unit propagation had given it that
\* value, and False when the variable has not been assigned since solve began.
C32_DecisionTakesLastValueHeld ==
    [][\A v \in 1..solver'.max_var : PhaseStep(v)]_vars

\* a decision has just made a variable true: the value comes from an earlier
\* unit propagation, the first decision on any variable being False
C32_Witness ==
    /\ pc = "loop"
    /\ solver.trail # <<>>
    /\ LET v == solver.trail[Len(solver.trail)]
       IN  /\ v \notin DOMAIN solver.antecedent
           /\ solver.level[v] = solver.decision_level
           /\ solver.decision_level >= 1
           /\ solver.assignment[v] = TRUE
           /\ num_decisions >= 2

\* ---- C33 ---------------------------------------------------------------------
\* the learned clause at index j (from 0) with its activity
Learned(s, j) == <<s.learned_clauses[j + 1], ClauseAct(s, j)>>

\* the indices of s whose clause and activity are in t after the reduction
KeptIndices(s, t) ==
    {j \in 0..(Len(s.learned_clauses) - 1) :
        \E i \in 0..(Len(t.learned_clauses) - 1) : Learned(t, i) = Learned(s, j)}

\* what a call of analyze_conflict, the only caller of clean_learned_clauses,
\* does to the learned clauses of s
ReductionPost(s, t) ==
    LET n == Len(s.learned_clauses)
        third == n \div 3
        keep_count == Max({third, min_keep})
        kept == KeptIndices(s, t)
    IN  IF n > clause_deletion_threshold
        THEN /\ Len(t.learned_clauses) = Min({n, keep_count})
             /\ DOMAIN t.clause_activity = 0..(Len(t.learned_clauses) - 1)
             /\ Cardinality(kept) = Len(t.learned_clauses)
             /\ \A j \in kept : \A d \in (0..(n - 1)) \ kept :
                    ~ClauseActLess(ClauseAct(s, j), ClauseAct(s, d))
        ELSE /\ t.learned_clauses = s.learned_clauses
             /\ t.clause_activity = s.clause_activity

\* C33: a call of analyze_conflict with n learned clauses, n above
\* clause_deletion_threshold, leaves max(n // 3, 50) of them (n if that is
\* more), each with the activity it had, at indices 0, 1, ..., and no clause it
\* keeps had a smaller activity than a clause it deletes; with n at or below
\* the threshold the learned clauses and their activities are unchanged.
C33_ReductionKeepsMostActiveThird ==
    [][(pc = "conflict" /\ pc' = "backtrack") => ReductionPost(solver, solver')]_vars

\* a reduction has just deleted clauses: 201 learned clauses, 67 kept
C33_Witness ==
    /\ pc = "backtrack"
    /\ num_conflicts = clause_deletion_threshold + 2
    /\ Len(solver.learned_clauses) = (clause_deletion_threshold + 1) \div 3
    /\ Len(solver.learned_clauses) > min_keep

\* analyze_conflict has run with exactly clause_deletion_threshold learned
\* clauses and has kept them all
C33_WitnessAtThreshold ==
    /\ pc = "backtrack"
    /\ Len(solver.learned_clauses) = clause_deletion_threshold

\* ---- C34 ---------------------------------------------------------------------
\* the antecedent of v is a learned clause: it is the clause unit_propagate
\* met in clauses + learned_clauses, and no original clause has its literals
LearnedAntecedent(s, v) ==
    /\ v \in DOMAIN s.assignment
    /\ v \in DOMAIN s.antecedent
    /\ \A i \in 1..Len(clauses) : clauses[i] # s.antecedent[v]
    /\ \E j \in 1..Len(s.learned_clauses) : s.learned_clauses[j] = s.antecedent[v]

\* C34: a call of analyze_conflict that reduces the learned clauses deletes no
\* learned clause that is the antecedent of an assigned variable: such a clause
\* is still among the learned clauses after the call.
C34_ReductionKeepsAntecedents ==
    [][(pc = "conflict" /\ pc' = "backtrack") =>
          \A v \in DOMAIN solver.antecedent :
              LearnedAntecedent(solver, v) =>
                  \E i \in 1..Len(solver'.learned_clauses) :
                      solver'.learned_clauses[i] = solver.antecedent[v]]_vars

\* after a reduction a variable on the trail has an antecedent that is neither
\* an original clause nor a learned clause any more
LearnedAntecedentGone ==
    /\ pc = "backtrack"
    /\ \E v \in DOMAIN solver.antecedent :
          /\ OnTrail(solver, v)
          /\ \A i \in 1..Len(clauses) : clauses[i] # solver.antecedent[v]
          /\ \A j \in 1..Len(solver.learned_clauses) :
                 solver.learned_clauses[j] # solver.antecedent[v]

\* ---- C35 ---------------------------------------------------------------------
\* the clauses the first call of solve_recursive branches on, after its unit
\* propagation and pure-literal elimination
BranchClauses(dp) == pure_literal_elim(DP_unit_propagate(dp, dp.K).clauses)

\* the first call of solve_recursive reaches step 6 with a literal
Branches(dp) ==
    /\ \A i \in 1..Len(DP_unit_propagate(dp, dp.K).clauses) :
           DP_unit_propagate(dp, dp.K).clauses[i] # <<>>
    /\ BranchClauses(dp) # <<>>
    /\ DP_choose_literal(DP_unit_propagate(dp, dp.K).dp) # 0

\* C35: solve_recursive ends by returning, never in a RecursionError, and the
\* variable of the literal it branches on occurs in the clauses it branches on.
C35_SolveRecursiveTerminates ==
    LET dp == NewDavisPutnam(clauses, solver.heuristic)
    IN  (pc # "dp") =>
            /\ pc = "returned"
            /\ Branches(dp) =>
                   Var(DP_choose_literal(DP_unit_propagate(dp, dp.K).dp))
                       \in AllVars(BranchClauses(dp))

\* solve has ended in the RecursionError: the literal chosen from self.K is in
\* none of the clauses left, and simplify returns them as they are
DpBranchesOnAbsentLiteral ==
    /\ pc = "raised"
    /\ Satisfiable(clauses)
    /\ clauses = BranchLiteralGone

\* ---- C36 ---------------------------------------------------------------------
\* C36: the clause analyze_conflict returns has every literal of the conflict
\* clause it was given, and every learned clause has every literal of some
\* original clause.
C36_LearnedContainsConflictClause ==
    /\ pc \in {"backtrack", "learn"} =>
           ClauseSet(conflict) \subseteq ClauseSet(learned_clause)
    /\ \A j \in 1..Len(solver.learned_clauses) :
           \E i \in 1..Len(clauses) :
               ClauseSet(clauses[i]) \subseteq ClauseSet(solver.learned_clauses[j])

\* analyze_conflict has returned a clause with a literal more than the conflict
\* clause, taken from an antecedent
C36_Witness ==
    /\ pc = "backtrack"
    /\ Len(conflict) >= 2
    /\ ClauseSet(learned_clause) # ClauseSet(conflict)
    /\ ClauseSet(conflict) \subseteq ClauseSet(learned_clause)

\* analyze_conflict has returned again after two clauses were learned
C36_WitnessLearned ==
    /\ pc = "backtrack"
    /\ Len(solver.learned_clauses) >= 2
    /\ ClauseSet(conflict) \subseteq ClauseSet(learned_clause)

\* ---- C37 ---------------------------------------------------------------------
\* unit_propagate is about to be called by solve
AboutToPropagate == pc = "propagate" \/ (pc = "loop" /\ ~should_restart(solver))

\* the literals true at decision level 0
Level0Lits(s) ==
    {lit \in TrueLits(s.assignment) : s.level[Var(lit)] = 0}

\* no learned clause is met by unit_propagate as unit or as conflict, no clause
\* activity has been bumped, and the literals at level 0 are among those the
\* original clauses force
LearnedClausesUnused ==
    /\ AboutToPropagate =>
           UsedClauses(solver, clauses \o solver.learned_clauses) \subseteq 1..Len(clauses)
    /\ \A i \in DOMAIN solver.clause_activity : Len(solver.clause_activity[i]) = 1
    /\ Level0Lits(solver) \subseteq UnitClosure(clauses, {})

\* C37: in every run of solve on a fresh solver no learned clause is the
\* conflict unit_propagate returns or the antecedent of an assignment, so that
\* bump_clause_activity is never called and the literals at decision level 0
\* are those the original clauses force.
C37_LearnedClausesNeverUsed == LearnedClausesUnused

\* no clause holds a literal twice
NoRepeatedLiteral(cls) ==
    \A i \in 1..Len(cls) : \A k, l \in 1..Len(cls[i]) : k # l => cls[i][k] # cls[i][l]

\* C37, amended: in every run of solve on a fresh solver, on clauses none of
\* which holds a literal twice, no learned clause is the conflict
\* unit_propagate returns or the antecedent of an assignment, bump_clause_activity
\* is never called and the literals at decision level 0 are those the original
\* clauses force.
C37_LearnedClausesNeverUsedWithoutRepeats ==
    NoRepeatedLiteral(clauses) => LearnedClausesUnused

\* unit_propagate is about to be called with learned clauses that are all
\* false or unit under the assignment, and stops at original clauses only
C37_Witness ==
    /\ NoRepeatedLiteral(clauses)
    /\ AboutToPropagate
    /\ Len(solver.learned_clauses) >= 2
    /\ UsedClauses(solver, clauses \o solver.learned_clauses) # {}
    /\ \E j \in 1..Len(solver.learned_clauses) :
           /\ ~IsSatisfied(solver.assignment, solver.learned_clauses[j])
           /\ Len(UnassignedLits(solver.assignment, solver.learned_clauses[j])) <= 1

\* a learned clause is the antecedent of an assignment at level 0
LearnedClauseIsAntecedent ==
    /\ pc = "no_conflict"
    /\ \E v \in DOMAIN solver.antecedent :
          /\ solver.level[v] = 0
          /\ \A i \in 1..Len(clauses) : clauses[i] # solver.antecedent[v]
          /\ \E j \in 1..Len(solver.learned_clauses) :
                 solver.learned_clauses[j] = solver.antecedent[v]

\* ---- C38 ---------------------------------------------------------------------
\* C38: the answer of a call of solve is the answer a fresh SATSolver gives on
\* the same clauses, whatever the object solved before.  A fresh solver that
\* returns before its time limit answers True exactly on the satisfiable
\* formulas (FreshAnswerIsRight), so every call that returns before its time
\* limit does.
C38_AnswerDependsOnClausesOnly ==
    (Returned /\ pc # "return_timeout") => (result = Satisfiable(clauses))

\* the answer of solve on a fresh SATSolver, the time limit apart
FreshAnswerIsRight ==
    (Returned /\ pc # "return_timeout") => (result = Satisfiable(clauses))

\* solve has returned True on a formula that makes 1 true, and then, called
\* again on the clause -1 alone, False at the conflict at level 0
SecondCallAnswersUnsat ==
    /\ pc = "return_conflict_level_0"
    /\ clauses = << <<-1>> >>
    /\ num_decisions = 0
    /\ solver.assignment[1] = TRUE

====
